---- MODULE Spec2Model ----
(***************************************************************************)
(* Model of the transaction cost / compliance analysis of zk-lense         *)
(* (cli/src/commands/simulate.rs): the compute-budget decoder              *)
(* parse_compute_budget_instructions, the report assembly                  *)
(* create_simulation_json, the console rendering print_simulation_results  *)
(* and the command run_simulate that calls them and saves the report.      *)
(*                                                                         *)
(* Numbers.  TLC's integers are 32 bits wide, the program's are u32, u64   *)
(* and usize.  Every u32/u64 quantity is therefore a natural number        *)
(* written in base 256, least significant digit first, without leading     *)
(* (high) zero digits: <<>> is 0, <<64, 13, 3>> is 200000.  A machine      *)
(* operation computes the exact result and then keeps the low 4 or 8       *)
(* digits, reporting whether anything was cut off.                         *)
(***************************************************************************)
EXTENDS Integers, Sequences, FiniteSets, TLC

\* ---------------------------------------------------------------- bounds
\* Longest instruction list of a transaction whose report is built.
MaxInstructions == 2
\* Longest instruction list of a transaction given to the decoder alone.
MaxDecoderInstructions == 3
\* Largest number of signatures attached to a transaction.
MaxSignatures == 2
\* Number of run_simulate invocations made one after the other.
MaxInvocations == 2

\* ------------------------------------------------------ program constants
LAMPORTS_PER_SIGNATURE == 5000
MAX_COMPUTE_UNITS == 1400000
DEFAULT_COMPUTE_UNITS == 200000
MAX_TRANSACTION_SIZE == 1232
LAMPORTS_PER_SOL == 1000000000
MICROLAMPORTS_PER_LAMPORT == 1000000
COMPUTE_BUDGET_PROGRAM_ID == "ComputeBudget111111111111111111111111111111"

\* --------------------------------------------- natural numbers, base 256
Min(a, b) == IF a <= b THEN a ELSE b
Max(a, b) == IF a >= b THEN a ELSE b

RECURSIVE Norm(_)
\* The digits of s without high zero digits.
Norm(s) ==
    IF s = <<>> THEN s
    ELSE IF s[Len(s)] = 0 THEN Norm(SubSeq(s, 1, Len(s) - 1))
    ELSE s

RECURSIVE FromNat(_)
\* The digits of a TLC integer n >= 0.
FromNat(n) == IF n = 0 THEN <<>> ELSE <<n % 256>> \o FromNat(n \div 256)

RECURSIVE ToNat(_)
\* The TLC integer of a number below 2^31.
ToNat(s) == IF s = <<>> THEN 0 ELSE s[1] + 256 * ToNat(Tail(s))

\* A number below 2^23: 256 times it fits a TLC integer.
IsSmall(s) == Len(s) <= 2 \/ (Len(s) = 3 /\ s[3] < 128)
\* A number below 2^30: twice it fits a TLC integer.
IsMedium(s) == Len(s) <= 3 \/ (Len(s) = 4 /\ s[4] < 64)

Digit(s, k) == IF k <= Len(s) THEN s[k] ELSE 0

RECURSIVE AddFrom(_, _, _, _)
AddFrom(a, b, k, carry) ==
    IF k > Len(a) /\ k > Len(b)
    THEN (IF carry = 0 THEN <<>> ELSE <<carry>>)
    ELSE LET t == Digit(a, k) + Digit(b, k) + carry
         IN  <<t % 256>> \o AddFrom(a, b, k + 1, t \div 256)

Add(a, b) == Norm(AddFrom(a, b, 1, 0))

RECURSIVE SubFrom(_, _, _, _)
SubFrom(a, b, k, borrow) ==
    IF k > Len(a) THEN <<>>
    ELSE LET t == Digit(a, k) - Digit(b, k) - borrow
         IN  IF t < 0 THEN <<t + 256>> \o SubFrom(a, b, k + 1, 1)
             ELSE <<t>> \o SubFrom(a, b, k + 1, 0)

\* a - b for a >= b.
Sub(a, b) == Norm(SubFrom(a, b, 1, 0))

RECURSIVE LeqFrom(_, _, _)
LeqFrom(a, b, k) ==
    IF k = 0 THEN TRUE
    ELSE IF a[k] # b[k] THEN a[k] < b[k]
    ELSE LeqFrom(a, b, k - 1)

\* a <= b, both without high zero digits.
Leq(a, b) ==
    IF Len(a) # Len(b) THEN Len(a) < Len(b) ELSE LeqFrom(a, b, Len(a))

Less(a, b) == ~Leq(b, a)

RECURSIVE MulSmallFrom(_, _, _, _)
MulSmallFrom(a, m, k, carry) ==
    IF k > Len(a) THEN FromNat(carry)
    ELSE LET t == a[k] * m + carry
         IN  <<t % 256>> \o MulSmallFrom(a, m, k + 1, t \div 256)

\* a * m for a TLC integer 0 <= m < 2^23.
MulSmall(a, m) == Norm(MulSmallFrom(a, m, 1, 0))

\* low + 256 * high
MulStep(low, high) == IF high = <<>> THEN low ELSE Add(low, <<0>> \o high)

RECURSIVE MulFrom(_, _, _)
MulFrom(a, b, k) ==
    IF k > Len(b) THEN <<>>
    ELSE MulStep(MulSmall(a, b[k]), MulFrom(a, b, k + 1))

Mul(a, b) == Norm(MulFrom(a, b, 1))

RECURSIVE DivSmallFrom(_, _, _, _)
\* Long division by a TLC integer 0 < m < 2^23, from digit k down.
DivSmallFrom(a, m, k, rem) ==
    IF k = 0 THEN [q |-> <<>>, r |-> rem]
    ELSE LET cur  == rem * 256 + a[k]
             rest == DivSmallFrom(a, m, k - 1, cur % m)
         IN  [q |-> rest.q \o <<cur \div m>>, r |-> rest.r]

RECURSIVE DivDigitBits(_, _, _, _, _)
\* One digit d of a long division by a TLC integer 0 < m < 2^30, bit by
\* bit from the bit of weight w down: the quotient digit and the remainder.
DivDigitBits(rem, d, m, w, q) ==
    IF w = 0 THEN [q |-> q, r |-> rem]
    ELSE LET r2 == 2 * rem + ((d \div w) % 2)
         IN  IF r2 >= m
             THEN DivDigitBits(r2 - m, d, m, w \div 2, 2 * q + 1)
             ELSE DivDigitBits(r2, d, m, w \div 2, 2 * q)

RECURSIVE DivMediumFrom(_, _, _, _)
\* Long division by a TLC integer 0 < m < 2^30, from digit k down.
DivMediumFrom(a, m, k, rem) ==
    IF k = 0 THEN [q |-> <<>>, r |-> rem]
    ELSE LET cur  == DivDigitBits(rem, a[k], m, 128, 0)
             rest == DivMediumFrom(a, m, k - 1, cur.r)
         IN  [q |-> rest.q \o <<cur.q>>, r |-> rest.r]

RECURSIVE QuotientDigit(_, _, _, _)
\* The largest d in q .. q + 2 * bit - 1 with d * b <= cur, by bisection.
QuotientDigit(cur, b, q, bit) ==
    IF bit = 0 THEN q
    ELSE IF Leq(MulSmall(b, q + bit), cur)
         THEN QuotientDigit(cur, b, q + bit, bit \div 2)
         ELSE QuotientDigit(cur, b, q, bit \div 2)

\* One step of the long division: the digit d of the quotient below those
\* found so far, and what is left of cur.
DivLongDigit(cur, high_q, b, d) ==
    [q |-> <<d>> \o high_q, r |-> Sub(cur, MulSmall(b, d))]

DivLongCur(cur, high_q, b) ==
    DivLongDigit(cur, high_q, b, QuotientDigit(cur, b, 0, 128))

\* The step for the remainder so far and the next digit of the dividend.
DivLongStep(digit, high, b) ==
    IF high.r = <<>> /\ digit = 0 THEN [q |-> <<0>> \o high.q, r |-> <<>>]
    ELSE DivLongCur(Norm(<<digit>> \o high.r), high.q, b)

RECURSIVE DivLongFrom(_, _, _)
\* Long division by any b > 0: quotient and remainder of the number made of
\* the digits k and above of a.
DivLongFrom(a, b, k) ==
    IF k > Len(a) THEN [q |-> <<>>, r |-> <<>>]
    ELSE DivLongStep(a[k], DivLongFrom(a, b, k + 1), b)

\* Quotient and remainder as numbers; low are the digits of the dividend
\* below those divided, which belong to the remainder.
DivResult(q, r, low) == [q |-> Norm(q), r |-> Norm(low \o r)]
DivResultNat(qr, low) == DivResult(qr.q, FromNat(qr.r), low)
DivResultLong(qr, low) == DivResult(qr.q, qr.r, low)

\* Quotient and remainder of a / b for b > 0 without low zero digits.
DivModOdd(a, b, low) ==
    IF IsSmall(b) THEN DivResultNat(DivSmallFrom(a, ToNat(b), Len(a), 0), low)
    ELSE IF IsMedium(b)
    THEN DivResultNat(DivMediumFrom(a, ToNat(b), Len(a), 0), low)
    ELSE DivResultLong(DivLongFrom(a, b, 1), low)

RECURSIVE LowZeroDigits(_)
\* The number of zero digits below the lowest non-zero digit of b > 0.
LowZeroDigits(b) == IF b[1] # 0 THEN 0 ELSE 1 + LowZeroDigits(Tail(b))

\* a / (b1 * 256^z): the quotient is that of the digits of a above z by b1,
\* and the remainder is theirs above the low z digits of a.
DivModShifted(a, b, z) ==
    IF Len(a) <= z THEN [q |-> <<>>, r |-> a]
    ELSE DivModOdd(SubSeq(a, z + 1, Len(a)), SubSeq(b, z + 1, Len(b)),
                   SubSeq(a, 1, z))

\* Quotient and remainder of a / b for b > 0.
DivMod(a, b) == DivModShifted(a, b, LowZeroDigits(b))

\* floor(a / b) for b > 0.
Div(a, b) == DivMod(a, b).q

\* a * m for a TLC integer 0 <= m < 2^31.
MulInt(a, m) ==
    IF m < 8388608 THEN MulSmall(a, m)
    ELSE Add(MulSmall(a, m % 65536), <<0, 0>> \o MulSmall(a, m \div 65536))

\* ------------------------------------------------------- machine integers
\* The low `width` digits of an exact result, and whether digits were lost.
Wrap(n, width) ==
    [value    |-> Norm(SubSeq(n, 1, Min(width, Len(n)))),
     overflow |-> Len(n) > width]

U64Mul(a, b) == Wrap(Mul(a, b), 8)
U64Add(a, b) == Wrap(Add(a, b), 8)

\* A faulty FromLeBytes: the bytes taken most significant first.
FromBeBytes(bytes) == Norm([k \in 1..Len(bytes) |-> bytes[Len(bytes) + 1 - k]])

\* u32::from_le_bytes / u64::from_le_bytes: the number whose digit of weight
\* 256^k is bytes[k].
FromLeBytes(bytes) == Norm(bytes)


\* ------------------------------------------------------------ Option<T>
\* None is <<>>, Some(v) is <<v>>.
None == <<>>
Some(v) == <<v>>
IsSome(o) == o # <<>>
UnwrapOr(o, default) == IF o = <<>> THEN default ELSE o[1]

\* ------------------------------------------------------------ the inputs
\* account_keys of a transaction built by Transaction::new_with_payer from a
\* compute-budget instruction and a verify instruction: the fee payer, then
\* the programs in order of appearance.
AccountKeys == <<"FeePayer", COMPUTE_BUDGET_PROGRAM_ID, "VerifierProgram">>

CompiledInstruction(index, data) ==
    [program_id_index |-> index, accounts |-> <<>>, data |-> data]

\* Well-formed directives to the compute-budget program: instruction type
\* 2 (SetComputeUnitLimit) or 3 (SetComputeUnitPrice), three more bytes the
\* decoder skips, then the value, little-endian.
SetLimitData ==
    { <<2, 0, 0, 0, 96, 227, 22, 0>>,                           \* 1,500,000
      <<2, 0, 0, 0, 192, 92, 21, 0>>,                           \* 1,400,000
      <<2, 9, 9, 9, 255, 255, 255, 255, 7, 7, 7, 7>>,           \* 2^32 - 1
      <<2, 0, 0, 0, 0, 0, 0, 0>> }                              \* 0
SetPriceData ==
    { <<3, 0, 0, 0, 16, 39, 0, 0, 0, 0, 0, 0>>,                 \* 10,000
      <<3, 9, 9, 9, 255, 255, 255, 255, 255, 255, 255, 255>> }  \* 2^64 - 1

\* Data the decoder has to ignore: empty, cut short, another instruction type.
MalformedData ==
    { <<>>,
      <<2, 0, 0, 0, 96, 227, 22>>,                              \* 7 bytes
      <<3, 0, 0, 0, 16, 39, 0, 0, 0, 0, 0>>,                    \* 11 bytes
      <<1, 0, 0, 0, 96, 227, 22, 0, 0, 0, 0, 0>> }              \* type 1

\* The instructions given to the decoder: every kind of data addressed to
\* the compute-budget program (index 1), and directives addressed to another
\* program (index 2) and through an index outside account_keys (index 3).
DecoderPool ==
    { CompiledInstruction(1, d) :
        d \in SetLimitData \cup SetPriceData \cup MalformedData }
    \cup { CompiledInstruction(2, <<2, 0, 0, 0, 96, 227, 22, 0>>),
           CompiledInstruction(3, <<3, 0, 0, 0, 16, 39, 0, 0, 0, 0, 0, 0>>) }

\* The instructions of the transactions reported on: the well-formed directives and a
\* verify instruction (proof bytes followed by witness bytes).
ReportPool ==
    { CompiledInstruction(1, d) : d \in SetLimitData \cup SetPriceData }
    \cup { CompiledInstruction(2, <<3, 1, 4, 1, 5, 9, 2, 6, 5, 3, 5, 8>>) }

InstructionLists(pool, longest) ==
    UNION { [1..n -> pool] : n \in 0..longest }

\* The message header Message::new compiles for these keys: the fee payer
\* signs and is writable, the two programs are read-only and do not sign.
MessageHeader ==
    [num_required_signatures        |-> 1,
     num_readonly_signed_accounts   |-> 0,
     num_readonly_unsigned_accounts |-> 2]

Message(instructions) ==
    [header |-> MessageHeader, account_keys |-> AccountKeys,
     instructions |-> instructions]

Transactions(pool, longest, signature_counts) ==
    { [message    |-> Message(ins),
       signatures |-> [k \in 1..n |-> "signature"]] :
      ins \in InstructionLists(pool, longest), n \in signature_counts }

\* RpcSimulateTransactionResult: units_consumed: Option<u64>, err: Option<_>.
UnitsConsumedValues == {None, Some(150000), Some(1500000)}
\* TransactionError::InstructionError(index, InstructionError::Custom(code))
\* and the unit variant TransactionError::BlockhashNotFound.
InstructionErrorCustom(index, code) ==
    [variant |-> "InstructionError", index |-> index, custom |-> code]
BlockhashNotFound == [variant |-> "BlockhashNotFound"]
ErrValues == {None, Some(InstructionErrorCustom(1, 1))}
SimulationLogs ==
    Some(<<"Program VerifierProgram invoke [1]",
           "Program VerifierProgram consumed 150000 of 1400000 compute units">>)
SimulationResults ==
    [units_consumed : UnitsConsumedValues, err : ErrValues,
     logs : {SimulationLogs}]

\* SolanaNetwork and what its Display prints (as_str).
SolanaNetworks == {"Devnet", "Testnet", "Mainnet"}
NetworkToString(network_arg) ==
    IF network_arg = "Devnet" THEN "devnet"
    ELSE IF network_arg = "Testnet" THEN "testnet" ELSE "mainnet"

\* Pubkey::from_str: the key a base-58 string of 32 bytes stands for, an
\* error for any other string; Pubkey::to_string gives the string back.
Base58Keys == {"VerifierProgram", "FeePayer", COMPUTE_BUDGET_PROGRAM_ID}
PubkeyFromStr(text) ==
    IF text \in Base58Keys THEN Some([pubkey |-> text]) ELSE None
PubkeyToString(key) == key.pubkey
ProofSizes == {0, 388}
WitnessSizes == {0, 12}

\* ------------------------------------- parse_compute_budget_instructions
\* account_keys.get(program_id_index): None when the index is out of range.
GetProgramId(transaction, instruction) ==
    IF instruction.program_id_index < Len(transaction.message.account_keys)
    THEN Some(transaction.message.account_keys[instruction.program_id_index + 1])
    ELSE None

\* A faulty IsComputeBudgetInstruction: any program whose id resolves.
IsComputeBudgetInstructionAnyProgram(transaction, instruction) ==
    IsSome(GetProgramId(transaction, instruction))

\* if let Some(&pid) = program_id && pid == compute_budget_program_id
IsComputeBudgetInstruction(transaction, instruction) ==
    LET program_id == GetProgramId(transaction, instruction)
    IN  IsSome(program_id) /\ program_id[1] = COMPUTE_BUDGET_PROGRAM_ID

\* data[k] of a Rust slice: in bounds, or the thread panics.
InBounds(data, k) == k < Len(data)

\* if data.len() >= 4
HasInstructionType(data) == Len(data) >= 4
\* A faulty IsSetComputeUnitLimit: the length test of the type byte alone.
IsSetComputeUnitLimitShort(data) == data[1] = 2 /\ Len(data) >= 4
\* instruction_type == 2 && data.len() >= 8
IsSetComputeUnitLimit(data) == data[1] = 2 /\ Len(data) >= 8
\* instruction_type == 3 && data.len() >= 12
IsSetComputeUnitPrice(data) == data[1] = 3 /\ Len(data) >= 12

Panicked(overrides) == [overrides EXCEPT !.panicked = TRUE]

\* A faulty SetComputeUnitLimit: the first directive wins.
SetComputeUnitLimitOnce(overrides, data) ==
    IF ~InBounds(data, 7) THEN Panicked(overrides)
    ELSE IF overrides.cu_limit # FromNat(DEFAULT_COMPUTE_UNITS) THEN overrides
    ELSE [overrides EXCEPT !.cu_limit = FromLeBytes(SubSeq(data, 5, 8))]

\* cu_limit = u32::from_le_bytes([data[4], data[5], data[6], data[7]])
SetComputeUnitLimit(overrides, data) ==
    IF ~InBounds(data, 7) THEN Panicked(overrides)
    ELSE [overrides EXCEPT !.cu_limit = FromLeBytes(SubSeq(data, 5, 8))]

\* A faulty SetComputeUnitPrice: the price put into fresh defaults.
SetComputeUnitPriceIntoDefaults(overrides, data) ==
    IF ~InBounds(data, 11) THEN Panicked(overrides)
    ELSE [cu_limit |-> FromNat(DEFAULT_COMPUTE_UNITS),
          cu_price |-> FromLeBytes(SubSeq(data, 5, 12)),
          panicked |-> FALSE]

\* cu_price = u64::from_le_bytes([data[4], ..., data[11]])
SetComputeUnitPrice(overrides, data) ==
    IF ~InBounds(data, 11) THEN Panicked(overrides)
    ELSE [overrides EXCEPT !.cu_price = FromLeBytes(SubSeq(data, 5, 12))]

\* The body of the loop over transaction.message.instructions.
ParseInstructionBody(transaction, instruction, overrides) ==
    LET data == instruction.data
    IN  IF ~IsComputeBudgetInstruction(transaction, instruction) THEN overrides
        ELSE IF ~HasInstructionType(data) THEN overrides
        ELSE IF ~InBounds(data, 0) THEN Panicked(overrides)
        ELSE IF IsSetComputeUnitLimit(data) THEN SetComputeUnitLimit(overrides, data)
        ELSE IF IsSetComputeUnitPrice(data) THEN SetComputeUnitPrice(overrides, data)
        ELSE overrides

\* let mut cu_limit = DEFAULT_COMPUTE_UNITS; let mut cu_price = 0u64;
DefaultOverrides ==
    [cu_limit |-> FromNat(DEFAULT_COMPUTE_UNITS), cu_price |-> <<>>,
     panicked |-> FALSE]

RECURSIVE ParseFrom(_, _, _)
\* The loop from instruction k on, stopping at a panic.
ParseFrom(transaction_arg, k, overrides) ==
    IF k > Len(transaction_arg.message.instructions) \/ overrides.panicked
    THEN overrides
    ELSE ParseFrom(transaction_arg, k + 1,
                   ParseInstructionBody(transaction_arg,
                       transaction_arg.message.instructions[k], overrides))

\* The whole call: (cu_limit, cu_price) after the loop.
parse_compute_budget_instructions(transaction_arg) ==
    ParseFrom(transaction_arg, 1, DefaultOverrides)


\* ------------------------------------------------------------------ f64
\* A finite f64 is the rational num / den it stands for, den a power of two;
\* den = 0 (<<>>) stands for the infinity or NaN of a division by zero.
\* Conversions and operations round to the nearest f64, ties to even.  The
\* quotients of this program lie between 2^-64 and 2^64, far from the
\* subnormal and the overflowing ranges, which are not modelled.
F64Zero == [num |-> <<>>, den |-> <<1>>]

DigitBits(d) ==
    IF d >= 128 THEN 8 ELSE IF d >= 64 THEN 7 ELSE IF d >= 32 THEN 6
    ELSE IF d >= 16 THEN 5 ELSE IF d >= 8 THEN 4 ELSE IF d >= 4 THEN 3
    ELSE IF d >= 2 THEN 2 ELSE d

\* The number of binary digits of n.
BitLength(n) ==
    IF n = <<>> THEN 0 ELSE 8 * (Len(n) - 1) + DigitBits(n[Len(n)])

\* n * 2^k
ShiftLeft(n, k) ==
    IF n = <<>> THEN <<>>
    ELSE [i \in 1..(k \div 8) |-> 0] \o MulSmall(n, 2 ^ (k % 8))

\* The integer nearest to (q * d + r) / d for 0 <= r < d, ties to even.
RoundHalfEven(q, r, d) ==
    LET twice == MulSmall(r, 2)
        up    == Less(d, twice) \/ (twice = d /\ Digit(q, 1) % 2 = 1)
    IN  IF up THEN Add(q, <<1>>) ELSE q

\* The f64 of significand m and exponent -s: m / 2^s.
F64Value(m, s) ==
    IF s >= 0 THEN [num |-> m, den |-> ShiftLeft(<<1>>, s)]
    ELSE [num |-> ShiftLeft(m, 0 - s), den |-> <<1>>]

\* floor(n / 2)
Half(n) == Norm(DivSmallFrom(n, 2, Len(n), 0).q)

\* The significand of 53 bits from the quotient q and remainder r of
\* n * 2^s / d, which lies between 2^52 and 2^54: above 2^53 the last bit of
\* q goes to the remainder.
F64Significand(q, r, d, s) ==
    IF BitLength(q) > 53
    THEN F64Value(RoundHalfEven(Half(q),
                                IF Digit(q, 1) % 2 = 1 THEN Add(r, d) ELSE r,
                                MulSmall(d, 2)),
                  s - 1)
    ELSE F64Value(RoundHalfEven(q, r, d), s)

F64Quotient(qr, d, s) == F64Significand(qr.q, qr.r, d, s)

\* num / den scaled by 2^s into the range of a significand.
F64Scaled(num, den, s) ==
    IF s >= 0 THEN F64Quotient(DivMod(ShiftLeft(num, s), den), den, s)
    ELSE F64Quotient(DivMod(num, ShiftLeft(den, 0 - s)),
                     ShiftLeft(den, 0 - s), s)

\* The f64 nearest to num / den for den > 0: a significand of 53 bits.
F64Round(num, den) ==
    IF num = <<>> THEN F64Zero
    ELSE IF den = <<1>> /\ BitLength(num) <= 53 THEN [num |-> num, den |-> den]
    ELSE F64Scaled(num, den, 53 - (BitLength(num) - BitLength(den)))

\* n as f64
F64From(n) == F64Round(n, <<1>>)

\* x / y
F64Div(x, y) ==
    IF x.den = <<>> \/ y.den = <<>> \/ y.num = <<>>
    THEN [num |-> x.num, den |-> <<>>]
    ELSE F64Round(Mul(x.num, y.den), Mul(x.den, y.num))

\* x * m for a TLC integer 0 < m < 2^23.
F64MulInt(x, m) ==
    IF x.den = <<>> THEN x ELSE F64Round(MulSmall(x.num, m), x.den)

\* x > m for a TLC integer m.
F64Greater(x, m) == x.den # <<>> /\ Less(MulSmall(x.den, m), x.num)

FormatRounded(qr, d) ==
    [finite |-> TRUE, scaled |-> RoundHalfEven(qr.q, qr.r, d)]

\* format!("{:.p}", x) with scale = 10^p: the decimal with p fractional
\* digits nearest to x (ties to even), as the integer x * 10^p.
FormatFixed(x, scale) ==
    IF x.den = <<>> THEN [finite |-> FALSE, scaled |-> <<>>]
    ELSE FormatRounded(DivMod(MulInt(x.num, scale), x.den), x.den)

\* A formatted message: its fixed text and the values put into its {} places.
Text(template, values) == [text |-> template, values |-> values]

\* ----------------------------------------------- create_simulation_json
\* sim_result.units_consumed.unwrap_or(0)
UnitsConsumed(sim_result) == FromNat(UnwrapOr(sim_result.units_consumed, 0))

\* A faulty ComputeBudgetPercentage: the division without its guard.
ComputeBudgetPercentageUnguarded(units_consumed, compute_budget) ==
    F64MulInt(F64Div(F64From(units_consumed), F64From(compute_budget)), 100)

\* if compute_budget > 0 { (units_consumed as f64 / compute_budget as f64)
\* * 100.0 } else { 0.0 }
ComputeBudgetPercentage(units_consumed, compute_budget) ==
    IF compute_budget # <<>>
    THEN F64MulInt(F64Div(F64From(units_consumed), F64From(compute_budget)), 100)
    ELSE F64Zero

\* A faulty CuLimitWarning: the maximum itself warned about.
CuLimitWarningAtMaximum(cu_limit) ==
    IF Leq(FromNat(MAX_COMPUTE_UNITS), cu_limit)
    THEN Some(Text("CU limit ({}) exceeds maximum allowed ({})",
                   <<cu_limit, FromNat(MAX_COMPUTE_UNITS)>>))
    ELSE None

\* if cu_limit > MAX_COMPUTE_UNITS { Some(format!(..)) } else { None }
CuLimitWarning(cu_limit) ==
    IF Less(FromNat(MAX_COMPUTE_UNITS), cu_limit)
    THEN Some(Text("CU limit ({}) exceeds maximum allowed ({})",
                   <<cu_limit, FromNat(MAX_COMPUTE_UNITS)>>))
    ELSE None

\* The length of bincode's short_vec length prefix.
ShortVecLen(n) == IF n < 128 THEN 1 ELSE IF n < 16384 THEN 2 ELSE 3

RECURSIVE InstructionsSize(_)
InstructionsSize(instructions) ==
    IF instructions = <<>> THEN 0
    ELSE LET ix == Head(instructions)
         IN  1 + ShortVecLen(Len(ix.accounts)) + Len(ix.accounts)
               + ShortVecLen(Len(ix.data)) + Len(ix.data)
               + InstructionsSize(Tail(instructions))

\* bincode::serialize(&transaction.message).len(): header, account keys,
\* recent blockhash, instructions.
MessageSize(transaction) ==
    LET m == transaction.message
    IN  3 + ShortVecLen(Len(m.account_keys)) + 32 * Len(m.account_keys) + 32
          + ShortVecLen(Len(m.instructions)) + InstructionsSize(m.instructions)

\* bincode::serialize(transaction).len(): the signatures, then the message.
TransactionSize(transaction) ==
    ShortVecLen(Len(transaction.signatures)) + 64 * Len(transaction.signatures)
    + MessageSize(transaction)

\* A faulty MessageWithinSize: a message of exactly the maximum is too large.
MessageWithinSizeBelowMaximum(message_size) ==
    message_size < MAX_TRANSACTION_SIZE

\* let message_within_size = message_size <= MAX_TRANSACTION_SIZE;
MessageWithinSize(message_size) == message_size <= MAX_TRANSACTION_SIZE

\* A faulty TransactionStatus: a simulation that consumed nothing failed.
TransactionStatusByUnits(sim_result) ==
    IF sim_result.units_consumed = None THEN "Failed" ELSE "Success"

\* if sim_result.err.is_some() { "Failed" } else { "Success" }
TransactionStatus(sim_result) ==
    IF IsSome(sim_result.err) THEN "Failed" ELSE "Success"

\* A faulty CuPerProofSize: the division without its guard.
CuPerProofSizeUnguarded(units_consumed, total_proof_witness_size) ==
    F64Div(F64From(units_consumed), F64From(FromNat(total_proof_witness_size)))

\* if total > 0 { units_consumed as f64 / total as f64 } else { 0.0 }
CuPerProofSize(units_consumed, total_proof_witness_size) ==
    IF total_proof_witness_size > 0
    THEN F64Div(F64From(units_consumed),
                F64From(FromNat(total_proof_witness_size)))
    ELSE F64Zero

\* A faulty NumSignatures: the signatures counted without the floor of 1.
NumSignaturesNoFloor(transaction) == Len(transaction.signatures)

\* transaction.signatures.len().max(1) as u64
NumSignatures(transaction) == Max(Len(transaction.signatures), 1)

\* num_signatures * LAMPORTS_PER_SIGNATURE
BaseFee(num_signatures) ==
    U64Mul(FromNat(num_signatures), FromNat(LAMPORTS_PER_SIGNATURE))

\* (cu_limit as u64 * cu_price_microlamports) / 1_000_000
PrioritizationFee(cu_limit, cu_price_microlamports) ==
    LET product == U64Mul(cu_limit, cu_price_microlamports)
    IN  [value    |-> Div(product.value, FromNat(MICROLAMPORTS_PER_LAMPORT)),
         overflow |-> product.overflow]

\* A faulty TotalFee: the prioritization fee left out.
TotalFeeBaseOnly(base_fee, prioritization_fee_lamports) ==
    U64Add(base_fee, <<>>)

\* base_fee + prioritization_fee_lamports
TotalFee(base_fee, prioritization_fee_lamports) ==
    U64Add(base_fee, prioritization_fee_lamports)

\* total_fee as f64 / LAMPORTS_PER_SOL as f64
CostInSol(total_fee) ==
    F64Div(F64From(total_fee), F64From(FromNat(LAMPORTS_PER_SOL)))

\* A faulty Priority: the fee over the default budget of 200,000.
PriorityOverDefault(prioritization_fee_lamports, compute_budget) ==
    F64Div(F64From(prioritization_fee_lamports),
           F64From(FromNat(DEFAULT_COMPUTE_UNITS)))

\* if compute_budget > 0 { prioritization_fee_lamports as f64 /
\* compute_budget as f64 } else { 0.0 }
Priority(prioritization_fee_lamports, compute_budget) ==
    IF compute_budget # <<>>
    THEN F64Div(F64From(prioritization_fee_lamports), F64From(compute_budget))
    ELSE F64Zero

\* A faulty ComputeSuggestion: the tier between 70% and 90% left out.
ComputeSuggestionTwoTiers(cu_limit_warning, compute_budget_percentage) ==
    IF IsSome(cu_limit_warning) THEN cu_limit_warning[1]
    ELSE IF F64Greater(compute_budget_percentage, 90)
    THEN Text("Consider optimizing compute usage - near budget limit", <<>>)
    ELSE Text("Compute usage is within acceptable range", <<>>)

\* if let Some(ref warning) = cu_limit_warning { warning.clone() } else if
\* compute_budget_percentage > 90.0 { .. } else if .. > 70.0 { .. } else { .. }
ComputeSuggestion(cu_limit_warning, compute_budget_percentage) ==
    IF IsSome(cu_limit_warning) THEN cu_limit_warning[1]
    ELSE IF F64Greater(compute_budget_percentage, 90)
    THEN Text("Consider optimizing compute usage - near budget limit", <<>>)
    ELSE IF F64Greater(compute_budget_percentage, 70)
    THEN Text("Monitor compute usage - approaching budget limit", <<>>)
    ELSE Text("Compute usage is within acceptable range", <<>>)

SizeSuggestion(message_size, message_within_size) ==
    IF ~message_within_size
    THEN Text("Transaction size ({}) exceeds maximum ({})",
              <<message_size, MAX_TRANSACTION_SIZE>>)
    ELSE Text("Transaction size ({}) is within limits", <<message_size>>)

FeeSuggestion(prioritization_fee_lamports) ==
    IF prioritization_fee_lamports = <<>>
    THEN "Consider adding priority fee for faster confirmation"
    ELSE "Priority fee is set"


\* The fee arithmetic, with `overflow` telling whether a u64 operation on
\* the way overflowed (the values are then the wrapped ones).
FeesTotal(num_signatures, base_fee, prioritization_fee, total_fee) ==
    [num_signatures     |-> num_signatures,
     base_fee           |-> base_fee.value,
     prioritization_fee |-> prioritization_fee.value,
     total_fee          |-> total_fee.value,
     overflow           |-> base_fee.overflow \/ prioritization_fee.overflow
                            \/ total_fee.overflow]

FeesSum(num_signatures, base_fee, prioritization_fee) ==
    FeesTotal(num_signatures, base_fee, prioritization_fee,
              TotalFee(base_fee.value, prioritization_fee.value))

FeesOf(num_signatures, overrides) ==
    FeesSum(num_signatures, BaseFee(num_signatures),
            PrioritizationFee(overrides.cu_limit, overrides.cu_price))

Fees(transaction, overrides) == FeesOf(NumSignatures(transaction), overrides)

\* The fields shared by "cost" and "fee_recommendation".
FeeGroup(fees, overrides) ==
    [base_fee_per_signature |-> LAMPORTS_PER_SIGNATURE,
     num_signatures         |-> fees.num_signatures,
     base_fee               |-> fees.base_fee,
     cu_limit               |-> overrides.cu_limit,
     cu_price_microlamports |-> overrides.cu_price,
     prioritization_fee     |-> fees.prioritization_fee,
     priority_fee           |-> fees.prioritization_fee,
     total_fee              |-> fees.total_fee,
     priority               |->
         FormatFixed(Priority(fees.prioritization_fee, overrides.cu_limit),
                     1000000000),
     suggestion             |-> FeeSuggestion(fees.prioritization_fee)]

\* "cost": the total in SOL and in lamports, then the fee fields.
CostGroup(fees, fee_group) ==
    [cost_in_sol      |-> FormatFixed(CostInSol(fees.total_fee), 1000000000),
     cost_in_lamports |-> fees.total_fee] @@ fee_group

\* "compute_units"; the percentage is printed as "{:.2}%".
ComputeUnitsGroup(units_consumed, compute_budget, compute_budget_percentage, cu_limit_warning) ==
    [total_compute_units_consumed |-> units_consumed,
     total_cu                     |-> units_consumed,
     compute_budget               |-> compute_budget,
     max_compute_units            |-> MAX_COMPUTE_UNITS,
     percentage_of_compute_budget_used |->
         FormatFixed(compute_budget_percentage, 100),
     warning    |-> cu_limit_warning,
     suggestion |-> ComputeSuggestion(cu_limit_warning, compute_budget_percentage)]

\* "proof"
ProofGroup(units_consumed, proof_size_arg, witness_size_arg) ==
    [proof_size               |-> proof_size_arg,
     witness_size             |-> witness_size_arg,
     total_proof_witness_size |-> proof_size_arg + witness_size_arg,
     cu_per_proof_size        |->
         FormatFixed(CuPerProofSize(units_consumed,
                                    proof_size_arg + witness_size_arg), 10000)]

\* format!("{:?}", e) of a TransactionError: the derived Debug output.
DebugFormat(e) ==
    IF e.variant = "InstructionError"
    THEN Text("InstructionError({}, Custom({}))", <<e.index, e.custom>>)
    ELSE Text(e.variant, <<>>)

\* "transaction_status"; error is err.as_ref().map(|e| format!("{:?}", e)).
StatusGroup(transaction_status, err) ==
    [status     |-> transaction_status,
     error      |-> IF IsSome(err) THEN Some(DebugFormat(err[1])) ELSE None,
     suggestion |-> IF transaction_status = "Success"
                    THEN "Transaction simulation successful"
                    ELSE "Review transaction error and fix issues"]

\* "transaction_size"
SizeGroup(transaction_size, message_size, message_within_size, proof_size_arg, witness_size_arg) ==
    [transaction_size         |-> transaction_size,
     message_size             |-> message_size,
     proof_size               |-> proof_size_arg,
     witness_size             |-> witness_size_arg,
     total_proof_witness_size |-> proof_size_arg + witness_size_arg,
     max_message_size         |-> MAX_TRANSACTION_SIZE,
     message_within_size      |-> message_within_size,
     message |->
         IF message_within_size
         THEN Text("Success: Message size ({}) is within limits ({})",
                   <<message_size, MAX_TRANSACTION_SIZE>>)
         ELSE Text("Fail: Message size ({}) exceeds maximum ({})",
                   <<message_size, MAX_TRANSACTION_SIZE>>),
     suggestion |-> SizeSuggestion(message_size, message_within_size)]

\* "accounts": the counts taken from the message header.
AccountsGroup(header, total_accounts) ==
    [total_accounts |-> total_accounts,
     writable_signed_accounts |->
         Max(header.num_required_signatures
             - header.num_readonly_signed_accounts, 0),
     writable_unsigned_accounts |->
         Max(Max(total_accounts - header.num_required_signatures, 0)
             - header.num_readonly_unsigned_accounts, 0),
     total_writable_accounts |->
         Max(header.num_required_signatures
             - header.num_readonly_signed_accounts, 0)
         + Max(Max(total_accounts - header.num_required_signatures, 0)
               - header.num_readonly_unsigned_accounts, 0),
     readonly_signed_accounts   |-> header.num_readonly_signed_accounts,
     readonly_unsigned_accounts |-> header.num_readonly_unsigned_accounts]

\* "transaction_logs"
LogsGroup(logs) == [logs |-> logs, log_count |-> Len(logs)]

\* "deserialization"
DeserializationGroup(transaction_status) ==
    [success    |-> transaction_status = "Success",
     suggestion |-> IF transaction_status = "Success"
                    THEN "Transaction deserialized successfully"
                    ELSE "Deserialization may have failed - check transaction structure"]

\* The groups of the report that the fee arithmetic does not touch; a
\* missing list of prioritization fees is null (None).
MetadataGroups(sim_result_arg, transaction_arg, recent_prioritization_fees_arg, program_id_arg, network_arg, rpc_url_arg) ==
    [heap_usage |-> [heap_size  |-> 0,
                     suggestion |-> "Monitor heap usage in program execution"],
     transaction_logs |-> LogsGroup(UnwrapOr(sim_result_arg.logs, <<>>)),
     accounts |-> AccountsGroup(transaction_arg.message.header,
                                Len(transaction_arg.message.account_keys)),
     deserialization |-> DeserializationGroup(TransactionStatus(sim_result_arg)),
     recent_prioritization_fees |-> recent_prioritization_fees_arg,
     program_id  |-> PubkeyToString(program_id_arg),
     environment |-> [network |-> NetworkToString(network_arg),
                      rpc_url |-> rpc_url_arg]]

\* json!({ ... }) from the locals of create_simulation_json.
SimulationJson(sim_result_arg, transaction_arg, proof_size_arg, witness_size_arg, overrides, units_consumed, fees, fee_group) ==
    [compute_units |->
         ComputeUnitsGroup(units_consumed, overrides.cu_limit,
                           ComputeBudgetPercentage(units_consumed,
                                                   overrides.cu_limit),
                           CuLimitWarning(overrides.cu_limit)),
     proof |-> ProofGroup(units_consumed, proof_size_arg, witness_size_arg),
     cost  |-> CostGroup(fees, fee_group),
     transaction_status |->
         StatusGroup(TransactionStatus(sim_result_arg), sim_result_arg.err),
     transaction_size |->
         SizeGroup(TransactionSize(transaction_arg), MessageSize(transaction_arg),
                   MessageWithinSize(MessageSize(transaction_arg)),
                   proof_size_arg, witness_size_arg),
     fee_recommendation |-> fee_group]

SimulationJsonOf(sim_result_arg, transaction_arg, proof_size_arg, witness_size_arg, overrides, fees) ==
    SimulationJson(sim_result_arg, transaction_arg, proof_size_arg,
                   witness_size_arg, overrides, UnitsConsumed(sim_result_arg),
                   fees, FeeGroup(fees, overrides))

\* The report built from the decoded overrides and the remaining arguments.
create_simulation_json(sim_result_arg, transaction_arg, proof_size_arg, witness_size_arg, recent_prioritization_fees_arg, program_id_arg, network_arg, rpc_url_arg, overrides) ==
    SimulationJsonOf(sim_result_arg, transaction_arg, proof_size_arg,
                     witness_size_arg, overrides,
                     Fees(transaction_arg, overrides))
    @@ MetadataGroups(sim_result_arg, transaction_arg,
                      recent_prioritization_fees_arg, program_id_arg,
                      network_arg, rpc_url_arg)

\* --------------------------------------------- print_simulation_results
DigitChars == <<"0", "1", "2", "3", "4", "5", "6", "7", "8", "9">>

RECURSIVE ToDecimal(_)
\* The decimal digits of n > 0, most significant first.
DecimalStep(qr) == ToDecimal(Norm(qr.q)) \o <<DigitChars[qr.r + 1]>>
ToDecimal(n) ==
    IF n = <<>> THEN <<>> ELSE DecimalStep(DivSmallFrom(n, 10, Len(n), 0))

\* n.to_string()
DecimalString(n) == IF n = <<>> THEN <<"0">> ELSE ToDecimal(n)

RECURSIVE FormatNumberFrom(_, _, _)
\* for (i, c) in s.chars().rev().enumerate(): a comma goes in front of the
\* result when i > 0 && i % 3 == 0, then c goes in front.
FormatNumberFrom(chars, i, result) ==
    IF i >= Len(chars) THEN result
    ELSE FormatNumberFrom(chars, i + 1,
             <<chars[Len(chars) - i]>>
             \o (IF i > 0 /\ i % 3 = 0 THEN <<",">> ELSE <<>>) \o result)

\* format_number(n): the decimal digits in groups of three.
format_number(n) == FormatNumberFrom(DecimalString(n), 0, <<>>)

\* format!("{:.9} SOL", lamports as f64 / LAMPORTS_PER_SOL as f64)
FormatSol(lamports) ==
    FormatFixed(F64Div(F64From(lamports), F64From(FromNat(LAMPORTS_PER_SOL))),
                1000000000)

\* The "Compute Units" section: three lines, the third with a pass/fail
\* mark, and the warning line when the limit exceeds the maximum.
PrintedComputeUnits(units_consumed, cu_limit_arg, compute_budget_percentage) ==
    [consumed |-> format_number(units_consumed),
     budget   |-> format_number(cu_limit_arg),
     usage    |-> FormatFixed(compute_budget_percentage, 100),
     usage_ok |-> ~F64Greater(compute_budget_percentage, 90),
     warning  |->
         IF Less(FromNat(MAX_COMPUTE_UNITS), cu_limit_arg)
         THEN Some(Text("Warning: CU limit ({}) exceeds maximum ({})",
                        <<format_number(cu_limit_arg),
                          format_number(FromNat(MAX_COMPUTE_UNITS))>>))
         ELSE None]

\* The "Transaction Status" section.
PrintedStatus(err) ==
    [is_success |-> ~IsSome(err),
     error      |-> IF IsSome(err) THEN Some(DebugFormat(err[1])) ELSE None]

\* The "Transaction Size" section.
PrintedSize(message_size) ==
    [message_size        |-> message_size,
     message_within_size |-> message_size <= MAX_TRANSACTION_SIZE,
     max_size            |-> MAX_TRANSACTION_SIZE]

\* The "Cost Estimate" section.
PrintedCost(fees) ==
    [signatures             |-> fees.num_signatures,
     lamports_per_signature |-> LAMPORTS_PER_SIGNATURE,
     base_fee     |-> FormatSol(fees.base_fee),
     priority_fee |-> FormatSol(fees.prioritization_fee),
     total        |-> FormatFixed(CostInSol(fees.total_fee), 1000000000)]

\* The "Proof Files" section.
PrintedProofFiles(proof_size_arg, witness_size_arg, proof_path_arg, witness_path_arg) ==
    [proof_size   |-> proof_size_arg,
     proof_path   |-> proof_path_arg,
     witness_size |-> witness_size_arg,
     witness_path |-> witness_path_arg,
     total        |-> proof_size_arg + witness_size_arg]

PrintedOf(sim_result_arg, transaction_arg, proof_size_arg, witness_size_arg, proof_path_arg, witness_path_arg, overrides, units_consumed) ==
    [compute_units |->
         PrintedComputeUnits(units_consumed, overrides.cu_limit,
                             ComputeBudgetPercentage(units_consumed,
                                                     overrides.cu_limit)),
     transaction_status |-> PrintedStatus(sim_result_arg.err),
     transaction_size   |-> PrintedSize(MessageSize(transaction_arg)),
     cost               |-> PrintedCost(Fees(transaction_arg, overrides)),
     proof_files        |->
         PrintedProofFiles(proof_size_arg, witness_size_arg, proof_path_arg,
                           witness_path_arg)]

\* A faulty PrintedResults: the budget and the fees of the default overrides.
PrintedResultsOfDefaults(sim_result_arg, transaction_arg, proof_size_arg, witness_size_arg, proof_path_arg, witness_path_arg, overrides) ==
    PrintedOf(sim_result_arg, transaction_arg, proof_size_arg,
              witness_size_arg, proof_path_arg, witness_path_arg,
              DefaultOverrides, UnitsConsumed(sim_result_arg))

\* What print_simulation_results writes to the console, section by section,
\* from the overrides it decodes itself.
PrintedResults(sim_result_arg, transaction_arg, proof_size_arg, witness_size_arg, proof_path_arg, witness_path_arg, overrides) ==
    PrintedOf(sim_result_arg, transaction_arg, proof_size_arg,
              witness_size_arg, proof_path_arg, witness_path_arg, overrides,
              UnitsConsumed(sim_result_arg))

\* ------------------------------------------------------------ the state
VARIABLES
    transaction,   \* the transaction under analysis
    pc,            \* "parse", "parsed", "done" or "panicked"
    next_ix,       \* position of the decoder's loop in message.instructions
    cu_limit,      \* the decoder's local cu_limit
    cu_price,      \* the decoder's local cu_price
    sim_result,    \* the simulator's result handed to create_simulation_json
    proof_size,
    witness_size,
    report,        \* the value create_simulation_json returned
    recent_prioritization_fees,  \* Option: the fees fetched, None if not
    program_id_str,              \* the program id given to run_simulate
    network,                     \* the SolanaNetwork of the config
    rpc_url,                     \* the RPC URL of the config
    proof_files,   \* what read_proof_files found: paths and instruction data
    console,       \* what print_simulation_results printed
    report_file,   \* the contents of .zklense/report.json
    result,        \* what the last run_simulate returned: "Ok" or "Err"
    invocations,   \* the number of run_simulate calls that have returned
    elapsed_ms,    \* the last start.elapsed().as_millis() shown
    project,       \* the project directory: .zklense, config.toml, .zkproof
    command,       \* the last init, config or view command and what it did
    pipeline       \* run_pipeline: the steps started and how it ended

\* The arguments of create_simulation_json that come from the environment.
environment_vars ==
    <<recent_prioritization_fees, program_id_str, network, rpc_url>>
\* What only run_simulate and print_simulation_results change.
run_vars ==
    <<proof_files, console, report_file, result, invocations, elapsed_ms>>

\* What the init, config, view and run commands change.
tool_vars == <<project, command, pipeline>>

vars == <<transaction, pc, next_ix, cu_limit, cu_price, sim_result,
          proof_size, witness_size, report, environment_vars, run_vars,
          tool_vars>>

NoReport == [absent |-> TRUE]
NoConsole == [absent |-> TRUE]
NoFile == [absent |-> TRUE]
NoProofFiles == [absent |-> TRUE]
NoSimulationResult ==
    [units_consumed |-> None, err |-> None, logs |-> None]

NoCommand == [name |-> "none"]
NoPipeline == [started |-> <<>>, status |-> "none"]

\* A project directory with an empty .zklense directory; no command has run.
InitTool ==
    /\ project = [base |-> TRUE, zklense |-> "dir", config |-> NoFile,
                  zkproof_report |-> NoFile]
    /\ command = NoCommand
    /\ pipeline = NoPipeline

\* The environment of an analysis outside run_simulate: no report file, no
\* invocation, the default network and a fixed program.
InitOutside ==
    /\ recent_prioritization_fees = None
    /\ program_id_str = "VerifierProgram"
    /\ network = "Devnet"
    /\ rpc_url = "https://api.devnet.solana.com"
    /\ proof_files = NoProofFiles
    /\ console = NoConsole
    /\ report_file = NoFile
    /\ result = "none"
    /\ invocations = 0
    /\ elapsed_ms = 0

InitEnvironment ==
    /\ InitOutside
    /\ InitTool

InitWith(transactions) ==
    /\ transaction \in transactions
    /\ pc = "parse"
    /\ next_ix = 1
    /\ cu_limit = DefaultOverrides.cu_limit
    /\ cu_price = DefaultOverrides.cu_price
    /\ sim_result = NoSimulationResult
    /\ proof_size = 0
    /\ witness_size = 0
    /\ report = NoReport
    /\ InitEnvironment

\* One iteration of `for instruction in &transaction.message.instructions`.
parse_instruction ==
    /\ pc = "parse"
    /\ next_ix <= Len(transaction.message.instructions)
    /\ LET after == ParseInstructionBody(
                        transaction, transaction.message.instructions[next_ix],
                        [cu_limit |-> cu_limit, cu_price |-> cu_price,
                         panicked |-> FALSE])
       IN  /\ cu_limit' = after.cu_limit
           /\ cu_price' = after.cu_price
           /\ pc' = IF after.panicked THEN "panicked" ELSE "parse"
           /\ next_ix' = IF after.panicked THEN next_ix ELSE next_ix + 1
    /\ UNCHANGED <<transaction, sim_result, proof_size, witness_size, report,
                   environment_vars, run_vars>>
    /\ UNCHANGED tool_vars

\* The loop is over: parse_compute_budget_instructions returns
\* (cu_limit, cu_price).
parse_return ==
    /\ pc = "parse"
    /\ next_ix > Len(transaction.message.instructions)
    /\ pc' = "parsed"
    /\ UNCHANGED <<transaction, next_ix, cu_limit, cu_price, sim_result,
                   proof_size, witness_size, report, environment_vars,
                   run_vars>>
    /\ UNCHANGED tool_vars

\* The rest of create_simulation_json.  Its other arguments are read only
\* from here on, so they are drawn here.  A u64 overflow wraps in a build
\* without overflow checks (release) ...
assemble_report ==
    /\ pc = "parsed"
    /\ \E s \in SimulationResults, p \in ProofSizes, w \in WitnessSizes :
         /\ sim_result' = s
         /\ proof_size' = p
         /\ witness_size' = w
         /\ report' = create_simulation_json(
                          s, transaction, p, w, recent_prioritization_fees,
                          PubkeyFromStr(program_id_str)[1], network, rpc_url,
                          [cu_limit |-> cu_limit, cu_price |-> cu_price])
    /\ pc' = "done"
    /\ UNCHANGED <<transaction, next_ix, cu_limit, cu_price, environment_vars,
                   run_vars>>
    /\ UNCHANGED tool_vars

\* ... and panics in a build with overflow checks (debug), at the first
\* overflowing operation of the fee arithmetic: no report.
overflow_panic ==
    /\ pc = "parsed"
    /\ Fees(transaction, [cu_limit |-> cu_limit, cu_price |-> cu_price]).overflow
    /\ \E s \in SimulationResults, p \in ProofSizes, w \in WitnessSizes :
         /\ sim_result' = s
         /\ proof_size' = p
         /\ witness_size' = w
    /\ pc' = "panicked"
    /\ UNCHANGED <<transaction, next_ix, cu_limit, cu_price, report,
                   environment_vars, run_vars>>
    /\ UNCHANGED tool_vars

\* The whole analysis, over transactions of well-formed directives with
\* zero to MaxSignatures signatures.
Init == InitWith(Transactions(ReportPool, MaxInstructions, 0..MaxSignatures))

Next == parse_instruction \/ parse_return \/ assemble_report \/ overflow_panic

Spec == Init /\ [][Next]_vars

\* The decoder alone, over transactions of every kind of instruction.
InitDecoder == InitWith(Transactions(DecoderPool, MaxDecoderInstructions, {1}))

NextDecoder == parse_instruction \/ parse_return

SpecDecoder == InitDecoder /\ [][NextDecoder]_vars

\* ------------------------------------------------------------ run_simulate
\* What the command meets outside itself.  A None stands for the failure of
\* the call (an Err that `?` returns at once).
ProgramIdArguments ==
    {None, Some(""), Some("not-a-key"), Some("VerifierProgram")}
PromptOutcomes == {None, Some("VerifierProgram")}

Bytes(n, byte) == [k \in 1..n |-> byte]

\* A proof of 388, 1072, 1073 or 1140 bytes with a witness of 12 bytes, or
\* no such files.
ProofFilesFound ==
    {None}
    \cup { Some([proof_path     |-> "target/circuit.proof",
                 witness_path   |-> "target/circuit.pw",
                 proof          |-> Bytes(p, 7),
                 public_witness |-> Bytes(12, 9)]) :
           p \in {388, 1072, 1073, 1140} }

ConfigOutcomes ==
    {None, Some([network |-> "Devnet",
                 rpc_url |-> "https://api.devnet.solana.com"])}

BlockhashOutcomes == {None, Some("blockhash")}

ElapsedValues == {120, 950}

\* simulate_transaction: no answer, or the simulator's result; a result
\* with an error is an answer like any other.
SimulateOutcomes ==
    {None}
    \cup { Some([units_consumed |-> u, err |-> e,
                 logs |-> IF e = Some(BlockhashNotFound)
                          THEN None ELSE SimulationLogs]) :
           u \in {Some(150000), Some(1300000)},
           e \in {None, Some(InstructionErrorCustom(1, 1)),
                  Some(BlockhashNotFound)} }

\* get_recent_prioritization_fees: no answer, a list of two entries or a
\* list of 52.
PrioritizationFeeOutcomes ==
    {None,
     Some(<<[slot |-> 1, prioritization_fee |-> 0],
            [slot |-> 2, prioritization_fee |-> 5000]>>),
     Some([k \in 1..52 |->
               [slot |-> 100 + k, prioritization_fee |-> 1000 * (k % 3)]])}

\* A faulty RecentFees: the first 50 entries in the order received.
RecentFeesOldestFirst(fees_vec) ==
    [k \in 1..Min(50, Len(fees_vec)) |->
        [slot |-> fees_vec[k].slot,
         prioritization_fee |-> fees_vec[k].prioritization_fee]]

\* fees_vec.iter().rev().take(50).map(..).collect()
RecentFees(fees_vec) ==
    [k \in 1..Min(50, Len(fees_vec)) |->
        [slot |-> fees_vec[Len(fees_vec) + 1 - k].slot,
         prioritization_fee |->
             fees_vec[Len(fees_vec) + 1 - k].prioritization_fee]]

\* proof bytes followed by witness bytes
create_instruction_data(proof_result) ==
    proof_result.proof \o proof_result.public_witness

\* n.to_le_bytes() of a u32
ToLeBytes(n) == [k \in 1..4 |-> Digit(FromNat(n), k)]

\* The account keys Message::new compiles: the fee payer, then the programs
\* of the instructions, each key once.
CompiledKeys(program_key) ==
    IF program_key \in {"FeePayer", COMPUTE_BUDGET_PROGRAM_ID}
    THEN <<"FeePayer", COMPUTE_BUDGET_PROGRAM_ID>>
    ELSE <<"FeePayer", COMPUTE_BUDGET_PROGRAM_ID, program_key>>

\* The position of a key among the account keys, counted from 0.
KeyIndex(keys, key) == (CHOOSE k \in 1..Len(keys) : keys[k] = key) - 1

\* A faulty BuildTransaction: the verify instruction is compiled under the
\* compute-budget program's key.
BuildTransactionOneProgram(program_id_arg, instruction_data) ==
    [message |->
         [header       |-> MessageHeader,
          account_keys |-> <<"FeePayer", COMPUTE_BUDGET_PROGRAM_ID,
                             PubkeyToString(program_id_arg)>>,
          instructions |->
              <<CompiledInstruction(
                    1, <<2, 0, 0, 0>> \o ToLeBytes(MAX_COMPUTE_UNITS)),
                CompiledInstruction(1, instruction_data)>>],
     signatures |-> <<"signature">>]

\* Transaction::new_with_payer(&[compute_unit_limit_ix, verify_instruction],
\* Some(&fee_payer)): the keys compiled from the payer and the two
\* programs, the two instructions in the order given, one signature slot.
BuildTransaction(program_id_arg, instruction_data) ==
    [message |->
         [header       |->
              [MessageHeader EXCEPT !.num_readonly_unsigned_accounts =
                   Len(CompiledKeys(PubkeyToString(program_id_arg))) - 1],
          account_keys |-> CompiledKeys(PubkeyToString(program_id_arg)),
          instructions |->
              <<CompiledInstruction(
                    KeyIndex(CompiledKeys(PubkeyToString(program_id_arg)),
                             COMPUTE_BUDGET_PROGRAM_ID),
                    <<2, 0, 0, 0>> \o ToLeBytes(MAX_COMPUTE_UNITS)),
                CompiledInstruction(
                    KeyIndex(CompiledKeys(PubkeyToString(program_id_arg)),
                             PubkeyToString(program_id_arg)),
                    instruction_data)>>],
     signatures |-> <<"signature">>]

\* serde_json::to_string_pretty: the document of a report.
ToStringPretty(value) == [json |-> value]

\* What a failed fs::write may leave behind: part of the new document.
TruncatedFile == [truncated |-> TRUE]

\* create_dir_all and fs::write: done, refused before the file was touched,
\* or failed after the file was truncated.
SaveOutcomes == {"written", "refused", "truncated"}

\* A faulty FileAfterSave: an existing report is never replaced.
FileAfterSaveKeepingOld(old, json_output, outcome) ==
    IF outcome = "written"
    THEN (IF old = NoFile THEN json_output ELSE old)
    ELSE IF outcome = "truncated" THEN TruncatedFile ELSE old

\* fs::write(&report_path, &json_output) creates or truncates the file.
FileAfterSave(old, json_output, outcome) ==
    IF outcome = "written" THEN json_output
    ELSE IF outcome = "truncated" THEN TruncatedFile ELSE old

\* A faulty SimulateFailed: a result that carries an error is a failure.
SimulateFailedOnError(outcome) ==
    outcome = None \/ IsSome(outcome[1].err)

\* connection.simulate_transaction(&transaction).await? returns early only
\* when the call itself failed.
SimulateFailed(outcome) == outcome = None

\* A build with overflow checks panics when the fee arithmetic overflows, a
\* build without them goes on with the wrapped values.
OverflowOutcomes(overflow) == IF overflow THEN {TRUE, FALSE} ELSE {FALSE}

NoTransaction == [absent |-> TRUE]

decoder_vars == <<next_ix, cu_limit, cu_price>>

\* return Err(..) or `?` on an Err: the invocation is over.
ReturnErr ==
    /\ pc' = "idle"
    /\ result' = "Err"
    /\ invocations' = invocations + 1

Continue(next) ==
    /\ pc' = next
    /\ UNCHANGED <<result, invocations>>

\* run_simulate, first part: the program id from the argument or the
\* prompt; an unreadable or empty one ends the invocation.  The locals of
\* the invocation start fresh.
start_run ==
    /\ pc = "idle"
    /\ invocations < MaxInvocations
    /\ \E arg \in ProgramIdArguments, typed \in PromptOutcomes :
         LET id == IF IsSome(arg) THEN arg ELSE typed
         IN  IF id = None \/ id = Some("")
             THEN /\ ReturnErr
                  /\ program_id_str' = ""
             ELSE /\ pc' = "read_proof_files"
                  /\ result' = "running"
                  /\ invocations' = invocations
                  /\ program_id_str' = id[1]
    /\ transaction' = NoTransaction
    /\ next_ix' = 1
    /\ cu_limit' = DefaultOverrides.cu_limit
    /\ cu_price' = DefaultOverrides.cu_price
    /\ sim_result' = NoSimulationResult
    /\ proof_size' = 0
    /\ witness_size' = 0
    /\ report' = NoReport
    /\ recent_prioritization_fees' = None
    /\ network' = "Devnet"
    /\ rpc_url' = "https://api.devnet.solana.com"
    /\ proof_files' = NoProofFiles
    /\ console' = NoConsole
    /\ elapsed_ms' = 0
    /\ UNCHANGED report_file
    /\ UNCHANGED tool_vars

\* read_proof_files()? and the two sizes.
read_proof_files ==
    /\ pc = "read_proof_files"
    /\ \E found \in ProofFilesFound :
         IF found = None
         THEN /\ ReturnErr
              /\ UNCHANGED <<proof_files, proof_size, witness_size>>
         ELSE /\ Continue("read_config")
              /\ proof_files' = found[1]
              /\ proof_size' = Len(found[1].proof)
              /\ witness_size' = Len(found[1].public_witness)
    /\ UNCHANGED <<transaction, decoder_vars, sim_result, report,
                   environment_vars, console, report_file, elapsed_ms>>
    /\ UNCHANGED tool_vars

\* current_dir()?, get_solana_rpc_url(..)?, get_solana_network(..)?
read_config ==
    /\ pc = "read_config"
    /\ \E config \in ConfigOutcomes :
         IF config = None
         THEN /\ ReturnErr
              /\ UNCHANGED <<network, rpc_url>>
         ELSE /\ Continue("connect")
              /\ network' = config[1].network
              /\ rpc_url' = config[1].rpc_url
    /\ UNCHANGED <<transaction, decoder_vars, sim_result, proof_size,
                   witness_size, report, recent_prioritization_fees,
                   program_id_str, proof_files, console, report_file,
                   elapsed_ms>>
    /\ UNCHANGED tool_vars

\* The program id is parsed, the transaction is built from the
\* compute-budget instruction and the verify instruction, and the latest
\* blockhash is fetched.
connect ==
    /\ pc = "connect"
    /\ \E blockhash \in BlockhashOutcomes, elapsed \in ElapsedValues :
         IF PubkeyFromStr(program_id_str) = None \/ blockhash = None
         THEN /\ ReturnErr
              /\ UNCHANGED <<transaction, elapsed_ms>>
         ELSE /\ Continue("simulate")
              /\ transaction' =
                     BuildTransaction(PubkeyFromStr(program_id_str)[1],
                                      create_instruction_data(proof_files))
              /\ elapsed_ms' = elapsed
    /\ UNCHANGED <<decoder_vars, sim_result, proof_size, witness_size, report,
                   environment_vars, proof_files, console, report_file>>
    /\ UNCHANGED tool_vars

\* connection.simulate_transaction(&transaction).await?
simulate_transaction ==
    /\ pc = "simulate"
    /\ \E outcome \in SimulateOutcomes, elapsed \in ElapsedValues :
         /\ sim_result' = UnwrapOr(outcome, NoSimulationResult)
         /\ IF SimulateFailed(outcome)
            THEN ReturnErr /\ UNCHANGED elapsed_ms
            ELSE Continue("fees") /\ elapsed_ms' = elapsed
    /\ UNCHANGED <<transaction, decoder_vars, proof_size, witness_size, report,
                   environment_vars, proof_files, console, report_file>>
    /\ UNCHANGED tool_vars

\* get_recent_prioritization_fees: a failure is only a missing list.
get_recent_prioritization_fees ==
    /\ pc = "fees"
    /\ \E fetched \in PrioritizationFeeOutcomes :
         recent_prioritization_fees' =
             IF fetched = None THEN None ELSE Some(RecentFees(fetched[1]))
    /\ Continue("print")
    /\ UNCHANGED <<transaction, decoder_vars, sim_result, proof_size,
                   witness_size, report, program_id_str, network, rpc_url,
                   run_vars>>
    /\ UNCHANGED tool_vars

\* print_simulation_results(&sim_response.value, &transaction, ..)
print_simulation_results ==
    /\ pc = "print"
    /\ \E panics \in OverflowOutcomes(
             Fees(transaction,
                  parse_compute_budget_instructions(transaction)).overflow) :
         IF panics
         THEN pc' = "panicked" /\ UNCHANGED console
         ELSE /\ pc' = "assemble"
              /\ console' = PrintedResults(
                     sim_result, transaction, proof_size, witness_size,
                     proof_files.proof_path, proof_files.witness_path,
                     parse_compute_budget_instructions(transaction))
    /\ UNCHANGED <<transaction, decoder_vars, sim_result, proof_size,
                   witness_size, report, environment_vars, proof_files,
                   report_file, result, invocations, elapsed_ms>>
    /\ UNCHANGED tool_vars

\* A faulty SimulationJsonOutput: the time the connection took is put into
\* the environment group.
SimulationJsonWithElapsed ==
    [create_simulation_json(
         sim_result, transaction, proof_size, witness_size,
         recent_prioritization_fees, PubkeyFromStr(program_id_str)[1],
         network, rpc_url, parse_compute_budget_instructions(transaction))
     EXCEPT !.environment = [network    |-> NetworkToString(network),
                             rpc_url    |-> rpc_url,
                             elapsed_ms |-> elapsed_ms]]

\* create_simulation_json(&sim_response.value, &transaction, proof_size,
\* witness_size, recent_prioritization_fees, &program_id, &network, &rpc_url)
SimulationJsonOutput ==
    create_simulation_json(
        sim_result, transaction, proof_size, witness_size,
        recent_prioritization_fees, PubkeyFromStr(program_id_str)[1],
        network, rpc_url, parse_compute_budget_instructions(transaction))

\* The report is assembled (the decoder's results are kept in cu_limit and
\* cu_price).
create_json_output ==
    /\ pc = "assemble"
    /\ cu_limit' = parse_compute_budget_instructions(transaction).cu_limit
    /\ cu_price' = parse_compute_budget_instructions(transaction).cu_price
    /\ \E panics \in OverflowOutcomes(
             Fees(transaction,
                  parse_compute_budget_instructions(transaction)).overflow) :
         IF panics
         THEN pc' = "panicked" /\ UNCHANGED report
         ELSE pc' = "save" /\ report' = SimulationJsonOutput
    /\ UNCHANGED <<transaction, next_ix, sim_result, proof_size, witness_size,
                   environment_vars, run_vars>>
    /\ UNCHANGED tool_vars

\* The report is serialized and written to .zklense/report.json; then
\* run_simulate returns Ok(()), whether the simulation succeeded or not.
save_report ==
    /\ pc = "save"
    /\ \E outcome \in SaveOutcomes :
         /\ report_file' =
                FileAfterSave(report_file, ToStringPretty(report), outcome)
         /\ result' = IF outcome = "written" THEN "Ok" ELSE "Err"
    /\ pc' = "idle"
    /\ invocations' = invocations + 1
    /\ UNCHANGED <<transaction, decoder_vars, sim_result, proof_size,
                   witness_size, report, environment_vars, proof_files,
                   console, elapsed_ms>>
    /\ UNCHANGED tool_vars

\* Invocations of run_simulate one after the other in one directory.
InitRun ==
    /\ transaction = NoTransaction
    /\ pc = "idle"
    /\ next_ix = 1
    /\ cu_limit = DefaultOverrides.cu_limit
    /\ cu_price = DefaultOverrides.cu_price
    /\ sim_result = NoSimulationResult
    /\ proof_size = 0
    /\ witness_size = 0
    /\ report = NoReport
    /\ InitEnvironment

NextRun ==
    \/ start_run
    \/ read_proof_files
    \/ read_config
    \/ connect
    \/ simulate_transaction
    \/ get_recent_prioritization_fees
    \/ print_simulation_results
    \/ create_json_output
    \/ save_report

SpecRun == InitRun /\ [][NextRun]_vars

\* ------------------------------------- the transaction run_simulate builds
\* run_simulate from the parsing of the program id on, for any program id
\* that is a key (the verifier's, the fee payer's, the compute-budget
\* program's) and proofs that begin like a limit directive (1,500,000), like
\* a price directive (10,000) or like neither, with and without a witness.
BuiltProofFiles ==
    { [proof_path     |-> "target/circuit.proof",
       witness_path   |-> "target/circuit.pw",
       proof          |-> p,
       public_witness |-> w] :
      p \in { <<2, 0, 0, 0, 96, 227, 22, 0>>,
              <<3, 0, 0, 0, 16, 39, 0, 0, 0, 0, 0, 0>>,
              <<7, 0, 0, 0, 96, 227, 22, 0>>,
              <<2, 0, 0, 0, 96>> },
      w \in { <<>>, <<9, 9, 9, 9>> } }

InitBuilt ==
    /\ transaction = NoTransaction
    /\ pc = "connect"
    /\ next_ix = 1
    /\ cu_limit = DefaultOverrides.cu_limit
    /\ cu_price = DefaultOverrides.cu_price
    /\ sim_result = NoSimulationResult
    /\ \E found \in BuiltProofFiles :
         /\ proof_files = found
         /\ proof_size = Len(found.proof)
         /\ witness_size = Len(found.public_witness)
    /\ report = NoReport
    /\ recent_prioritization_fees = None
    /\ program_id_str \in Base58Keys
    /\ network = "Devnet"
    /\ rpc_url = "https://api.devnet.solana.com"
    /\ console = NoConsole
    /\ report_file = NoFile
    /\ result = "running"
    /\ invocations = 0
    /\ elapsed_ms = 0
    /\ InitTool

NextBuilt ==
    \/ connect
    \/ simulate_transaction
    \/ get_recent_prioritization_fees
    \/ print_simulation_results
    \/ create_json_output
    \/ save_report

SpecBuilt == InitBuilt /\ [][NextBuilt]_vars

\* ------------------------------------------------- the configuration
\* A string is the sequence of its pieces: a piece is one of the characters
\* TOML must escape (quote, backslash, newline) or a run of other text.
DEFAULT_WEB_APP_URL == <<"https://", "zklense.netlify.app/">>

\* SolanaNetwork::rpc_url
NetworkRpcUrl(network_arg) ==
    IF network_arg = "Devnet" THEN <<"https://", "api.devnet.solana.com">>
    ELSE IF network_arg = "Testnet"
    THEN <<"https://", "api.testnet.solana.com">>
    ELSE <<"https://", "api.mainnet-beta.solana.com">>

\* str::to_lowercase, on the pieces that occur
ToLowercase(text) ==
    [k \in 1..Len(text) |->
        IF text[k] = "MAINNET" THEN "mainnet"
        ELSE IF text[k] = "Devnet" THEN "devnet" ELSE text[k]]

\* SolanaNetwork::from_str: Ok(network) or Err (None)
NetworkFromStr(text) ==
    IF ToLowercase(text) = <<"devnet">> THEN Some("Devnet")
    ELSE IF ToLowercase(text) = <<"testnet">> THEN Some("Testnet")
    ELSE IF ToLowercase(text) \in {<<"mainnet">>, <<"mainnet-beta">>}
    THEN Some("Mainnet")
    ELSE None

\* ZkLenseConfig::get: settings.get(key)
Get(settings, key) ==
    IF key \in DOMAIN settings THEN Some(settings[key]) ELSE None

\* ZkLenseConfig::set: settings.insert(key, value)
Set(settings, key, value) ==
    [k \in DOMAIN settings \cup {key} |->
        IF k = key THEN value ELSE settings[k]]

\* ZkLenseConfig::default(): no settings.
EmptySettings == [k \in {} |-> <<>>]

\* ZkLenseConfig::new(), chrono_timestamp() having read the clock.
ZkLenseConfigNew(timestamp) ==
    [version        |-> <<"0.1.0">>,
     initialized_at |-> <<timestamp>>,
     web_app_url    |-> DEFAULT_WEB_APP_URL,
     solana_network |-> <<NetworkToString("Devnet")>>,
     solana_rpc_url |-> NetworkRpcUrl("Devnet")]

\* get("solana_network").and_then(|s| s.parse().ok()).unwrap_or_default()
GetSolanaNetwork(settings) ==
    IF Get(settings, "solana_network") = None THEN "Devnet"
    ELSE UnwrapOr(NetworkFromStr(settings["solana_network"]), "Devnet")

\* A faulty SetSolanaNetwork: the RPC URL is left as it was.
SetSolanaNetworkOnly(settings, network_arg) ==
    Set(settings, "solana_network", <<NetworkToString(network_arg)>>)

\* set("solana_network", network.as_str()); set("solana_rpc_url", ..)
SetSolanaNetwork(settings, network_arg) ==
    Set(Set(settings, "solana_network", <<NetworkToString(network_arg)>>),
        "solana_rpc_url", NetworkRpcUrl(network_arg))

\* get("solana_rpc_url").cloned().unwrap_or_else(|| network default)
GetSolanaRpcUrl(settings) ==
    UnwrapOr(Get(settings, "solana_rpc_url"),
             NetworkRpcUrl(GetSolanaNetwork(settings)))

\* A faulty SetSolanaRpcUrl: a configuration holding the URL alone.
SetSolanaRpcUrlAlone(settings, url) == Set(EmptySettings, "solana_rpc_url", url)

\* set("solana_rpc_url", rpc_url)
SetSolanaRpcUrl(settings, url) == Set(settings, "solana_rpc_url", url)

RECURSIVE TomlEscapeLossy(_)
\* A faulty TomlEscape: a backslash is written as it is.
TomlEscapeLossy(text) ==
    IF text = <<>> THEN <<>>
    ELSE (IF Head(text) = "\"" THEN <<"\\", "\"">>
          ELSE IF Head(text) = "\n" THEN <<"\\", "n">>
          ELSE <<Head(text)>>) \o TomlEscapeLossy(Tail(text))

RECURSIVE TomlEscape(_)
\* The inside of a TOML basic string: quote, backslash and newline are
\* written as a backslash and a letter.
TomlEscape(text) ==
    IF text = <<>> THEN <<>>
    ELSE (IF Head(text) = "\"" THEN <<"\\", "\"">>
          ELSE IF Head(text) = "\\" THEN <<"\\", "\\">>
          ELSE IF Head(text) = "\n" THEN <<"\\", "n">>
          ELSE <<Head(text)>>) \o TomlEscape(Tail(text))

RECURSIVE TomlUnescape(_)
\* The string a TOML basic string stands for.
TomlUnescape(literal) ==
    IF literal = <<>> THEN <<>>
    ELSE IF Head(literal) = "\\" /\ Len(literal) >= 2
    THEN <<IF literal[2] = "n" THEN "\n" ELSE literal[2]>>
         \o TomlUnescape(Tail(Tail(literal)))
    ELSE <<Head(literal)>> \o TomlUnescape(Tail(literal))

\* The keys the commands write, in one order of a HashMap's iteration; the
\* other order modelled is the reverse.
SettingKeys ==
    <<"initialized_at", "solana_network", "solana_rpc_url", "version",
      "web_app_url">>
HashMapOrders == {"forward", "backward"}
KeysInOrder(settings, order) ==
    LET present == SelectSeq(SettingKeys, LAMBDA k : k \in DOMAIN settings)
    IN  IF order = "forward" THEN present
        ELSE [k \in 1..Len(present) |-> present[Len(present) + 1 - k]]

\* toml::to_string_pretty(self): the [settings] table, a line `key = "..."`
\* for each entry in the map's iteration order.
TomlToString(settings, order) ==
    [k \in 1..Len(KeysInOrder(settings, order)) |->
        [key     |-> KeysInOrder(settings, order)[k],
         literal |-> TomlEscape(settings[KeysInOrder(settings, order)[k]])]]

\* toml::from_str(&contents): the settings of the lines; an empty file is a
\* configuration without settings (#[serde(default)]).
TomlFromStr(contents) ==
    [key \in {contents[k].key : k \in 1..Len(contents)} |->
        TomlUnescape(
            contents[CHOOSE k \in 1..Len(contents) :
                         contents[k].key = key].literal)]

\* File::create(path)? and write_all(..)?: the file after a save that went
\* through, was refused, or failed after the file was created empty.
ConfigFileAfterSave(old, contents, outcome) ==
    IF outcome = "written" THEN [toml |-> contents]
    ELSE IF outcome = "truncated" THEN [toml |-> <<>>] ELSE old

\* get_zklense_dir(base).exists(): true for a directory and for a file.
is_initialized(p) == p.zklense # "absent"

\* get_config_path(base).exists()
config_exists(p) == p.zklense = "dir" /\ p.config # NoFile

\* read_config(base): Err (None) without a config file, else the loaded
\* configuration.
ReadConfig(p) ==
    IF config_exists(p) THEN Some(TomlFromStr(p.config.toml)) ELSE None

\* config.save(&config_path): the project after the save. Nothing can be
\* created under a path that is not a directory.
SaveConfig(p, settings, order, outcome) ==
    IF p.zklense # "dir" THEN p
    ELSE [p EXCEPT !.config =
              ConfigFileAfterSave(p.config, TomlToString(settings, order),
                                  outcome)]

\* Whether config.save(&config_path) returned Ok.
SaveSucceeded(p, outcome) == p.zklense = "dir" /\ outcome = "written"

\* let _ = fs::remove_dir(&zklense_dir): only an empty directory is removed.
CleanUp(p) ==
    IF p.config = NoFile THEN [p EXCEPT !.zklense = "absent"] ELSE p

\* run_init(path): the project after the command.
RunInit(p, timestamp, order, mkdir_outcome, outcome) ==
    IF ~p.base THEN p
    ELSE IF p.zklense # "absent"
    THEN (IF config_exists(p) THEN p
          ELSE SaveConfig(p, ZkLenseConfigNew(timestamp), order, outcome))
    ELSE IF mkdir_outcome # "created" THEN p
    ELSE IF outcome = "written"
    THEN SaveConfig([p EXCEPT !.zklense = "dir"],
                    ZkLenseConfigNew(timestamp), order, outcome)
    ELSE CleanUp(SaveConfig([p EXCEPT !.zklense = "dir"],
                            ZkLenseConfigNew(timestamp), order, outcome))

Timestamps == {"1700000000", "1700000777"}
MkdirOutcomes == {"created", "refused"}
PromptAnswers == {"accepted", "declined", "failed"}
NetworkArguments ==
    {<<"devnet">>, <<"testnet">>, <<"MAINNET">>, <<"mainnet-beta">>,
     <<"localnet">>}
RpcUrlArguments ==
    {<<"https://", "rpc.example.com/", "\"", "\\", "\n", "key">>,
     <<"http://", "localhost:8899">>,
     <<"ftp://", "rpc.example.com">>,
     NetworkRpcUrl("Testnet")}

\* What a command leaves for its caller.
Returned(name, arg, result_arg, saved, returned) ==
    [name |-> name, arg |-> arg, result |-> result_arg, saved |-> saved,
     returned |-> returned]

\* zklense init
run_init ==
    /\ \E timestamp \in Timestamps, order \in HashMapOrders,
          mkdir_outcome \in MkdirOutcomes, outcome \in SaveOutcomes :
           /\ project' = RunInit(project, timestamp, order, mkdir_outcome,
                                 outcome)
           /\ command' =
                  Returned("run_init", <<>>, "()",
                           IF /\ project.base
                              /\ ~config_exists(project)
                              /\ \/ project.zklense = "dir"
                                 \/ /\ project.zklense = "absent"
                                    /\ mkdir_outcome = "created"
                              /\ outcome = "written"
                           THEN Some(ZkLenseConfigNew(timestamp)) ELSE None,
                           None)
    /\ UNCHANGED <<pipeline, transaction, pc, next_ix, cu_limit, cu_price,
                   sim_result, proof_size, witness_size, report,
                   environment_vars, run_vars>>

\* ensure_initialized(path): asks, and runs init when the answer is yes.
ensure_initialized ==
    /\ \E answer \in PromptAnswers, timestamp \in Timestamps,
          order \in HashMapOrders, mkdir_outcome \in MkdirOutcomes,
          outcome \in SaveOutcomes :
           IF ~project.base
           THEN /\ command' = Returned("ensure_initialized", answer, "Err",
                                       None, None)
                /\ UNCHANGED project
           ELSE IF is_initialized(project)
           THEN /\ command' = Returned("ensure_initialized", answer,
                                       "Ok(true)", None, None)
                /\ UNCHANGED project
           ELSE IF answer = "failed"
           THEN /\ command' = Returned("ensure_initialized", answer, "Err",
                                       None, None)
                /\ UNCHANGED project
           ELSE IF answer = "declined"
           THEN /\ command' = Returned("ensure_initialized", answer,
                                       "Ok(false)", None, None)
                /\ UNCHANGED project
           ELSE /\ project' = RunInit(project, timestamp, order,
                                      mkdir_outcome, outcome)
                /\ command' =
                       Returned("ensure_initialized", answer,
                                IF is_initialized(project') THEN "Ok(true)"
                                ELSE "Err",
                                IF mkdir_outcome = "created"
                                   /\ outcome = "written"
                                THEN Some(ZkLenseConfigNew(timestamp))
                                ELSE None,
                                None)
    /\ UNCHANGED <<pipeline, transaction, pc, next_ix, cu_limit, cu_price,
                   sim_result, proof_size, witness_size, report,
                   environment_vars, run_vars>>

\* A command that read the configuration, changed it and saved it.
Update(name, arg, settings, order, outcome, returned) ==
    /\ project' = SaveConfig(project, settings, order, outcome)
    /\ command' =
           IF SaveSucceeded(project, outcome)
           THEN Returned(name, arg, "Ok", Some(settings), returned)
           ELSE Returned(name, arg, "Err", None, None)

\* A command that returned without writing.
Return(name, arg, result_arg) ==
    /\ command' = Returned(name, arg, result_arg, None, None)
    /\ UNCHANGED project

\* zklense config set-network <network>
run_config_set_network ==
    /\ \E network_str \in NetworkArguments, order \in HashMapOrders,
          outcome \in SaveOutcomes :
           IF NetworkFromStr(network_str) = None \/ ReadConfig(project) = None
           THEN Return("run_config_set_network", network_str, "Err")
           ELSE IF GetSolanaNetwork(ReadConfig(project)[1])
                   = NetworkFromStr(network_str)[1]
           THEN Return("run_config_set_network", network_str, "Ok")
           ELSE Update("run_config_set_network", network_str,
                       SetSolanaNetwork(ReadConfig(project)[1],
                                        NetworkFromStr(network_str)[1]),
                       order, outcome, None)
    /\ UNCHANGED <<pipeline, transaction, pc, next_ix, cu_limit, cu_price,
                   sim_result, proof_size, witness_size, report,
                   environment_vars, run_vars>>

\* zklense config set-rpc <url>
run_config_set_rpc ==
    /\ \E url \in RpcUrlArguments, order \in HashMapOrders,
          outcome \in SaveOutcomes :
           IF \/ url = <<>>
              \/ url[1] \notin {"http://", "https://"}
              \/ ReadConfig(project) = None
           THEN Return("run_config_set_rpc", url, "Err")
           ELSE IF GetSolanaRpcUrl(ReadConfig(project)[1]) = url
           THEN Return("run_config_set_rpc", url, "Ok")
           ELSE Update("run_config_set_rpc", url,
                       SetSolanaRpcUrl(ReadConfig(project)[1], url),
                       order, outcome, None)
    /\ UNCHANGED <<pipeline, transaction, pc, next_ix, cu_limit, cu_price,
                   sim_result, proof_size, witness_size, report,
                   environment_vars, run_vars>>

\* zklense config reset-rpc
run_config_reset_rpc ==
    /\ \E order \in HashMapOrders, outcome \in SaveOutcomes :
           IF ReadConfig(project) = None
           THEN Return("run_config_reset_rpc", <<>>, "Err")
           ELSE Update("run_config_reset_rpc", <<>>,
                       SetSolanaRpcUrl(
                           ReadConfig(project)[1],
                           NetworkRpcUrl(
                               GetSolanaNetwork(ReadConfig(project)[1]))),
                       order, outcome,
                       Some(NetworkRpcUrl(
                                GetSolanaNetwork(ReadConfig(project)[1]))))
    /\ UNCHANGED <<pipeline, transaction, pc, next_ix, cu_limit, cu_price,
                   sim_result, proof_size, witness_size, report,
                   environment_vars, run_vars>>

\* The configurations a project may hold before a command: the default one,
\* one with a custom network and RPC URL, one edited by hand, an empty file.
StoredSettings ==
    {ZkLenseConfigNew("1699999999"),
     [ZkLenseConfigNew("1699999999") EXCEPT
          !.solana_network = <<"mainnet">>,
          !.solana_rpc_url = <<"https://", "my.rpc/", "\\", "\"", "x">>],
     [solana_network |-> <<"localnet">>, version |-> <<"0.1.0">>],
     EmptySettings}

ProjectStates ==
    {[base |-> FALSE, zklense |-> "absent", config |-> NoFile,
      zkproof_report |-> NoFile],
     [base |-> TRUE, zklense |-> "absent", config |-> NoFile,
      zkproof_report |-> NoFile],
     [base |-> TRUE, zklense |-> "file", config |-> NoFile,
      zkproof_report |-> NoFile],
     [base |-> TRUE, zklense |-> "dir", config |-> NoFile,
      zkproof_report |-> NoFile]}
    \cup {[base |-> TRUE, zklense |-> "dir",
           config |-> [toml |-> TomlToString(settings, order)],
           zkproof_report |-> NoFile] :
              settings \in StoredSettings, order \in HashMapOrders}

InitConfig ==
    /\ transaction = NoTransaction
    /\ pc = "idle"
    /\ next_ix = 1
    /\ cu_limit = DefaultOverrides.cu_limit
    /\ cu_price = DefaultOverrides.cu_price
    /\ sim_result = NoSimulationResult
    /\ proof_size = 0
    /\ witness_size = 0
    /\ report = NoReport
    /\ InitOutside
    /\ project \in ProjectStates
    /\ command = NoCommand
    /\ pipeline = NoPipeline

NextConfig ==
    \/ run_init
    \/ ensure_initialized
    \/ run_config_set_network
    \/ run_config_set_rpc
    \/ run_config_reset_rpc

SpecConfig == InitConfig /\ [][NextConfig]_vars

\* ------------------------------------------------------------ the viewer
\* current_dir()?.join(".zklense") and zklense_dir.join("report.json"): the
\* path run_simulate writes, below the project directory.
SimulateReportPath == <<".zklense", "report.json">>

\* project_dir.join(".zkproof") and zkproof_dir.join("report.json"): the
\* path run_view reads, below the project directory.
ViewReportPath == <<".zkproof", "report.json">>

\* The file at a path below the project directory.
FileAt(path) ==
    IF path = <<".zklense", "report.json">> THEN report_file
    ELSE IF path = <<".zkproof", "report.json">> THEN project.zkproof_report
    ELSE NoFile

\* serde_json::from_str::<Value>(&report_content).is_ok()
IsValidJson(file) == "json" \in DOMAIN file

ReadOutcomes == {"read", "unreadable"}
BindOutcomes == {"bound", "refused"}
Requests == {"GET", "OPTIONS", "POST", "unread"}

\* What run_view came to: process::exit(1), or serving the content read.
Exited(why) == [name |-> "run_view", result |-> why]
Serving(content, response) ==
    [name |-> "run_view", result |-> "serving", content |-> content,
     response |-> response]

\* zklense view, up to the loop over listener.incoming()
run_view ==
    /\ pc = "idle"
    /\ command.name # "run_view"
    /\ \E read_outcome \in ReadOutcomes, bind_outcome \in BindOutcomes :
           command' =
               IF FileAt(ViewReportPath) = NoFile
               THEN Exited("No report found")
               ELSE IF read_outcome = "unreadable"
               THEN Exited("Failed to read report")
               ELSE IF ~IsValidJson(FileAt(ViewReportPath))
               THEN Exited("Report file is not valid JSON")
               ELSE IF bind_outcome = "refused"
               THEN Exited("Failed to bind to a port")
               ELSE Serving(FileAt(ViewReportPath), None)
    /\ UNCHANGED <<project, pipeline, transaction, pc, next_ix, cu_limit,
                   cu_price, sim_result, proof_size, witness_size, report,
                   environment_vars, run_vars>>

\* 204 No Content for a CORS preflight.
NoContent == [status |-> 204, body |-> None]

\* 200 OK with the content as body.
OkResponse(content) == [status |-> 200, body |-> Some(content)]

\* One connection of the loop: the request is read and answered from the
\* content cloned for the thread; a request that is neither OPTIONS nor GET,
\* or that cannot be read, gets no answer.
handle_connection ==
    /\ command.name = "run_view"
    /\ command.result = "serving"
    /\ \E request \in Requests :
           command' =
               Serving(command.content,
                       IF request = "OPTIONS"
                       THEN Some([request |-> request, answer |-> Some(NoContent)])
                       ELSE IF request = "GET"
                       THEN Some([request |-> request,
                                  answer |-> Some(OkResponse(command.content))])
                       ELSE Some([request |-> request, answer |-> None]))
    /\ UNCHANGED <<project, pipeline, transaction, pc, next_ix, cu_limit,
                   cu_price, sim_result, proof_size, witness_size, report,
                   environment_vars, run_vars>>

\* What .zkproof/report.json may hold when simulate starts: nothing, the
\* valid JSON document of another tool, something that is not JSON.
ZkproofReports ==
    {NoFile, ToStringPretty([tool |-> "zkprof"]), TruncatedFile}

\* A simulate invocation that has read its files and configuration, in a
\* project whose .zklense/report.json does not exist yet.
InitView ==
    /\ transaction = NoTransaction
    /\ pc = "connect"
    /\ next_ix = 1
    /\ cu_limit = DefaultOverrides.cu_limit
    /\ cu_price = DefaultOverrides.cu_price
    /\ sim_result = NoSimulationResult
    /\ proof_files = [proof_path     |-> "target/circuit.proof",
                      witness_path   |-> "target/circuit.pw",
                      proof          |-> <<7, 0, 0, 0, 96, 227, 22, 0>>,
                      public_witness |-> <<9, 9, 9, 9>>]
    /\ proof_size = 8
    /\ witness_size = 4
    /\ report = NoReport
    /\ recent_prioritization_fees = None
    /\ program_id_str = "VerifierProgram"
    /\ network = "Devnet"
    /\ rpc_url = "https://api.devnet.solana.com"
    /\ console = NoConsole
    /\ report_file = NoFile
    /\ result = "running"
    /\ invocations = 0
    /\ elapsed_ms = 0
    /\ \E found \in ZkproofReports :
           project = [base |-> TRUE, zklense |-> "dir", config |-> NoFile,
                      zkproof_report |-> found]
    /\ command = NoCommand
    /\ pipeline = NoPipeline

NextView ==
    \/ connect
    \/ simulate_transaction
    \/ get_recent_prioritization_fees
    \/ print_simulation_results
    \/ create_json_output
    \/ save_report
    \/ run_view
    \/ handle_connection

SpecView == InitView /\ [][NextView]_vars

\* ---------------------------------------------------- the build pipeline
\* get_pipeline_steps(): name, command and whether the step runs in target/.
get_pipeline_steps ==
    <<[name |-> "Execute", command |-> "nargo",
       working_dir_is_target |-> FALSE],
      [name |-> "Compile", command |-> "sunspot",
       working_dir_is_target |-> TRUE],
      [name |-> "Setup", command |-> "sunspot",
       working_dir_is_target |-> TRUE],
      [name |-> "Prove", command |-> "sunspot",
       working_dir_is_target |-> TRUE],
      [name |-> "Verify", command |-> "sunspot",
       working_dir_is_target |-> TRUE],
      [name |-> "Deploy", command |-> "sunspot",
       working_dir_is_target |-> TRUE]>>

\* What the machine offers to check_prerequisites: whether nargo and sunspot
\* are on the PATH, and how an offered installation of sunspot ends.
InstallOutcomes == {"declined", "failed", "installed", "not on PATH"}

\* check_prerequisites(): Ok with both commands present, or with sunspot
\* alone missing and then installed by handle_missing_sunspot.
PrerequisitesOk(nargo, sunspot, install) ==
    nargo /\ (sunspot \/ install = "installed")

\* Command::output() and the exit status: the command could not be spawned,
\* exited with failure, or exited with success.
StepOutcomes == {"spawn failed", "exit failure", "success"}

\* A faulty StepFailed: the exit status is not looked at.
StepFailedOnSpawnOnly(outcome) == outcome = "spawn failed"

\* run_command_with_spinner returned Err: output()? or !status.success()
StepFailed(outcome) == outcome # "success"

StepDurations == {40, 900}
PromptOutcomesOfDeploy == {"yes", "no", "failed"}
DeployOutcomes == {"no solana", "failed", "deployed"}

\* run_pipeline up to the loop over the steps: the path, Nargo.toml and the
\* prerequisites are checked.
start_pipeline ==
    /\ pipeline.status = "none"
    /\ \E circuit_name_read \in BOOLEAN, nargo \in BOOLEAN,
          sunspot \in BOOLEAN, install \in InstallOutcomes :
           pipeline' =
               [pipeline EXCEPT !.status =
                    IF /\ project.base
                       /\ circuit_name_read
                       /\ PrerequisitesOk(nargo, sunspot, install)
                    THEN "running" ELSE "Err"]
    /\ UNCHANGED <<project, command, transaction, pc, next_ix, cu_limit,
                   cu_price, sim_result, proof_size, witness_size, report,
                   environment_vars, run_vars>>

\* One iteration of the loop: the target directory is looked for, the
\* command runs to its end (how it ended is kept in exits), and its
\* duration is pushed when it succeeded.
\* A successful command may have created target/ and the program file.
run_step ==
    /\ pipeline.status = "running"
    /\ Len(pipeline.started) < Len(get_pipeline_steps)
    /\ LET step == get_pipeline_steps[Len(pipeline.started) + 1]
       IN  IF step.working_dir_is_target /\ ~pipeline.target
           THEN pipeline' = [pipeline EXCEPT !.status = "Err"]
           ELSE \E outcome \in StepOutcomes, duration \in StepDurations,
                   created \in BOOLEAN :
                    pipeline' =
                        IF StepFailed(outcome)
                        THEN [pipeline EXCEPT
                                  !.started = Append(@, step.name),
                                  !.exits = Append(@, outcome),
                                  !.status = "Err"]
                        ELSE [pipeline EXCEPT
                                  !.started = Append(@, step.name),
                                  !.exits = Append(@, outcome),
                                  !.step_durations =
                                      Append(@, <<step.name, duration>>),
                                  !.target =
                                      @ \/ (step.name = "Execute" /\ created),
                                  !.program_file =
                                      @ \/ (step.name = "Deploy" /\ created)]
    /\ UNCHANGED <<project, command, transaction, pc, next_ix, cu_limit,
                   cu_price, sim_result, proof_size, witness_size, report,
                   environment_vars, run_vars>>

\* run_pipeline after the loop: the summary, and the deployment prompt when
\* the program file exists.
finish_pipeline ==
    /\ pipeline.status = "running"
    /\ Len(pipeline.started) = Len(get_pipeline_steps)
    /\ \E answer \in PromptOutcomesOfDeploy, deploy \in DeployOutcomes :
           pipeline' =
               IF ~pipeline.program_file
               THEN [pipeline EXCEPT !.status = "Ok"]
               ELSE [pipeline EXCEPT
                         !.prompted = TRUE,
                         !.status =
                             IF answer = "failed" THEN "Err"
                             ELSE IF answer = "no" THEN "Ok"
                             ELSE IF deploy = "deployed" THEN "Ok"
                             ELSE "Err"]
    /\ UNCHANGED <<project, command, transaction, pc, next_ix, cu_limit,
                   cu_price, sim_result, proof_size, witness_size, report,
                   environment_vars, run_vars>>

\* A project before `zklense run`: the path may not exist, target/ and the
\* program file may be there from an earlier build.
InitPipeline ==
    /\ transaction = NoTransaction
    /\ pc = "idle"
    /\ next_ix = 1
    /\ cu_limit = DefaultOverrides.cu_limit
    /\ cu_price = DefaultOverrides.cu_price
    /\ sim_result = NoSimulationResult
    /\ proof_size = 0
    /\ witness_size = 0
    /\ report = NoReport
    /\ InitOutside
    /\ \E base \in BOOLEAN :
           project = [base |-> base,
                      zklense |-> IF base THEN "dir" ELSE "absent",
                      config |-> NoFile, zkproof_report |-> NoFile]
    /\ command = NoCommand
    /\ \E target \in BOOLEAN, program_file \in BOOLEAN :
           pipeline = [status |-> "none", started |-> <<>>, exits |-> <<>>,
                       step_durations |-> <<>>, target |-> target,
                       program_file |-> target /\ program_file,
                       prompted |-> FALSE]

NextPipeline ==
    \/ start_pipeline
    \/ run_step
    \/ finish_pipeline

SpecPipeline == InitPipeline /\ [][NextPipeline]_vars

\* ---------------------------------------------- rendering and assembly
\* print_simulation_results and create_simulation_json as run_simulate
\* calls them, on any transaction: directives of a limit, of two prices and
\* a verify instruction, with no or one signature.
RenderPool ==
    { CompiledInstruction(1, <<2, 0, 0, 0, 96, 227, 22, 0>>),
      CompiledInstruction(1, <<3, 0, 0, 0, 16, 39, 0, 0, 0, 0, 0, 0>>),
      CompiledInstruction(1, <<3, 9, 9, 9, 255, 255, 255, 255, 255, 255, 255, 255>>),
      CompiledInstruction(2, <<3, 1, 4, 1, 5, 9, 2, 6, 5, 3, 5, 8>>) }

InitRender ==
    /\ transaction \in Transactions(RenderPool, MaxInstructions, {0, 1})
    /\ pc = "print"
    /\ next_ix = 1
    /\ cu_limit = DefaultOverrides.cu_limit
    /\ cu_price = DefaultOverrides.cu_price
    /\ sim_result \in SimulationResults
    /\ proof_size \in ProofSizes
    /\ witness_size \in WitnessSizes
    /\ report = NoReport
    /\ recent_prioritization_fees = None
    /\ program_id_str = "VerifierProgram"
    /\ network = "Devnet"
    /\ rpc_url = "https://api.devnet.solana.com"
    /\ proof_files = [proof_path     |-> "target/circuit.proof",
                      witness_path   |-> "target/circuit.pw",
                      proof          |-> <<>>,
                      public_witness |-> <<>>]
    /\ console = NoConsole
    /\ report_file = NoFile
    /\ result = "running"
    /\ invocations = 0
    /\ elapsed_ms = 0
    /\ InitTool

\* The two calls are made again on the same values, later.
run_again ==
    /\ pc = "save"
    /\ invocations + 1 < MaxInvocations
    /\ pc' = "print"
    /\ invocations' = invocations + 1
    /\ elapsed_ms' = elapsed_ms + 250
    /\ UNCHANGED <<transaction, decoder_vars, sim_result, proof_size,
                   witness_size, report, environment_vars, proof_files,
                   console, report_file, result>>
    /\ UNCHANGED tool_vars

NextRender == print_simulation_results \/ create_json_output \/ run_again

SpecRender == InitRender /\ [][NextRender]_vars


\* ------------------------------------------------------------ the claims
\* What the claims speak of, stated on the transaction itself.
Instructions == transaction.message.instructions

\* Instruction k resolves, through account_keys[program_id_index], to the
\* compute-budget program.
ResolvesToComputeBudget(k) ==
    LET keys  == transaction.message.account_keys
        index == Instructions[k].program_id_index
    IN  /\ index + 1 \in 1..Len(keys)
        /\ keys[index + 1] = "ComputeBudget111111111111111111111111111111"

ProgramIdIndexOutOfRange(k) ==
    Instructions[k].program_id_index >= Len(transaction.message.account_keys)

\* A compute-budget instruction with data[0] == 2 and at least 8 bytes.
WellFormedLimit(k) ==
    /\ ResolvesToComputeBudget(k)
    /\ Len(Instructions[k].data) >= 8
    /\ Instructions[k].data[1] = 2

\* A compute-budget instruction with data[0] == 3 and at least 12 bytes.
WellFormedPrice(k) ==
    /\ ResolvesToComputeBudget(k)
    /\ Len(Instructions[k].data) >= 12
    /\ Instructions[k].data[1] = 3

RECURSIVE LittleEndianValue(_)
\* bytes[1] + 256 * bytes[2] + 256^2 * bytes[3] + ...
LittleEndianValue(bytes) ==
    IF bytes = <<>> THEN <<>>
    ELSE Add(FromNat(bytes[1]), MulSmall(LittleEndianValue(Tail(bytes)), 256))

LimitOf(k) == LittleEndianValue(SubSeq(Instructions[k].data, 5, 8))
PriceOf(k) == LittleEndianValue(SubSeq(Instructions[k].data, 5, 12))

\* The decoder's loop has visited instructions 1 .. Visited.
Visited == next_ix - 1
DecoderReturned == pc # "parse" /\ Visited = Len(Instructions)

\* C1: when no instruction of the transaction resolves to the compute-budget
\* program, the decoder holds and returns exactly (200000, 0), whatever the
\* data of the instructions is.
C1_DefaultsWithoutComputeBudget ==
    (\A k \in 1..Len(Instructions) : ~ResolvesToComputeBudget(k))
    => /\ cu_limit = FromNat(200000)
       /\ cu_price = FromNat(0)
       /\ pc # "panicked"

\* C1's case: the decoder returned from a transaction of two directives, one
\* starting with byte 2 and one with byte 3, none addressed to compute budget.
C1_Witness ==
    /\ DecoderReturned
    /\ \A k \in 1..Len(Instructions) : ~ResolvesToComputeBudget(k)
    /\ \E k \in 1..Len(Instructions) :
         Len(Instructions[k].data) >= 8 /\ Instructions[k].data[1] = 2
    /\ \E k \in 1..Len(Instructions) :
         Len(Instructions[k].data) >= 12 /\ Instructions[k].data[1] = 3

\* C2 as stated: whatever surrounds a well-formed limit directive, the decoder
\* returns the little-endian u32 of its data[4..8].
C2_Original ==
    DecoderReturned
    => \A k \in 1..Len(Instructions) : WellFormedLimit(k) => cu_limit = LimitOf(k)

\* C2 as amended: once the decoder has visited a well-formed limit directive,
\* cu_limit is the little-endian u32 of its data[4..8] for as long as no later
\* well-formed limit directive has been visited (so also on return, when none
\* follows it), whatever the other instructions are.
C2_LimitOfLastVisitedDirective ==
    \A k \in 1..Visited :
        (WellFormedLimit(k) /\ \A j \in (k + 1)..Visited : ~WellFormedLimit(j))
        => cu_limit = LimitOf(k)

\* C2's case: a limit directive with non-zero bytes 1..4, between two other
\* instructions, has been decoded and its value 2^32 - 1 returned.
C2_Witness ==
    /\ DecoderReturned
    /\ Len(Instructions) = 3
    /\ WellFormedLimit(2)
    /\ Instructions[2].data[2] # 0
    /\ ~WellFormedLimit(1) /\ ~WellFormedLimit(3)
    /\ cu_limit = <<255, 255, 255, 255>>

\* C3: a step over a well-formed price directive sets cu_price to the
\* little-endian u64 of data[4..12] and leaves cu_limit; a step over a
\* compute-budget instruction with data[0] == 2 leaves cu_price.
C3_PriceAndLimitAreIndependent ==
    [][(pc = "parse" /\ next_ix <= Len(Instructions))
       => /\ WellFormedPrice(next_ix)
             => (cu_price' = PriceOf(next_ix) /\ cu_limit' = cu_limit)
          /\ (/\ ResolvesToComputeBudget(next_ix)
              /\ Len(Instructions[next_ix].data) >= 1
              /\ Instructions[next_ix].data[1] = 2)
             => cu_price' = cu_price]_vars

\* C3's case: a price directive was decoded after a limit directive, and a
\* limit directive after a price directive; both values stand.
C3_Witness ==
    /\ Visited = 3
    /\ WellFormedLimit(1) /\ WellFormedPrice(2) /\ WellFormedLimit(3)
    /\ cu_limit = LimitOf(3) /\ cu_limit # FromNat(200000)
    /\ cu_price = PriceOf(2) /\ cu_price # FromNat(0)

\* The last well-formed directive of each kind in instruction order.
LastLimit ==
    CHOOSE k \in 1..Len(Instructions) :
        WellFormedLimit(k) /\ \A j \in (k + 1)..Len(Instructions) : ~WellFormedLimit(j)
LastPrice ==
    CHOOSE k \in 1..Len(Instructions) :
        WellFormedPrice(k) /\ \A j \in (k + 1)..Len(Instructions) : ~WellFormedPrice(j)

\* C4: the decoder returns, for the limit and for the price separately, the
\* value of the last well-formed directive of that kind in instruction order.
C4_LastWriteWins ==
    DecoderReturned
    => /\ (\E k \in 1..Len(Instructions) : WellFormedLimit(k))
          => cu_limit = LimitOf(LastLimit)
       /\ (\E k \in 1..Len(Instructions) : WellFormedPrice(k))
          => cu_price = PriceOf(LastPrice)

\* C4's case: two limit directives of different values around a price
\* directive; the second limit is returned.
C4_Witness ==
    /\ DecoderReturned
    /\ Len(Instructions) = 3
    /\ WellFormedLimit(1) /\ WellFormedPrice(2) /\ WellFormedLimit(3)
    /\ LimitOf(1) # LimitOf(3)
    /\ cu_limit = LimitOf(3)
    /\ cu_price = PriceOf(2)

\* A compute-budget instruction that is neither a well-formed limit nor a
\* well-formed price directive.
IgnoredDirective(k) ==
    ResolvesToComputeBudget(k) /\ ~WellFormedLimit(k) /\ ~WellFormedPrice(k)

\* C5: a step over a compute-budget instruction of another discriminant or
\* with too little data changes neither cu_limit nor cu_price, does not
\* panic, and moves on to the next instruction.
C5_MalformedDirectiveIgnored ==
    [][(pc = "parse" /\ next_ix <= Len(Instructions) /\ IgnoredDirective(next_ix))
       => /\ cu_limit' = cu_limit
          /\ cu_price' = cu_price
          /\ pc' = "parse"
          /\ next_ix' = next_ix + 1]_vars

\* C5's case: a limit directive, then a truncated or foreign one, then a
\* price directive: both values are returned.
C5_Witness ==
    /\ DecoderReturned
    /\ Len(Instructions) = 3
    /\ WellFormedLimit(1) /\ IgnoredDirective(2) /\ WellFormedPrice(3)
    /\ Len(Instructions[2].data) = 7
    /\ cu_limit = LimitOf(1) /\ cu_limit # FromNat(200000)
    /\ cu_price = PriceOf(3)

\* C6 as stated: once the decoder has come to an instruction whose
\* program-id index is out of range, the analysis has failed; it does not go
\* on past that instruction.
C6_OutOfRangeIndexFailsFast ==
    (\E k \in 1..Visited : ProgramIdIndexOutOfRange(k))
    => pc \in {"failed", "panicked"}

\* ------------------------------------------------- the claims on the fees
\* The exact product cu_limit * cu_price_microlamports of the decoded values.
ExactProduct == Mul(cu_limit, cu_price)

\* f = floor(n / d) for d > 0:  f * d <= n < (f + 1) * d.
IsFloorOf(f, n, d) ==
    /\ Leq(MulInt(f, d), n)
    /\ Less(n, MulInt(Add(f, <<1>>), d))

\* C7 as stated: for every decoded cu_limit (u32) and cu_price (u64) the
\* analysis does not panic, and the priority fee it reports is
\* floor(cu_limit * cu_price / 1,000,000) of the exact product.
C7_PriorityFeeIsExactFloor ==
    /\ pc # "panicked"
    /\ pc = "done"
       => /\ IsFloorOf(report.cost.priority_fee, ExactProduct, 1000000)
          /\ report.cost.prioritization_fee = report.cost.priority_fee

\* C8: the report counts max(number of signatures, 1) signatures, never 0,
\* and charges 5000 lamports for each of them.
C8_BaseFeeFloorsSignatureCount ==
    pc = "done"
    => LET attached == Len(transaction.signatures)
           counted  == IF attached >= 1 THEN attached ELSE 1
       IN  /\ report.cost.num_signatures = counted
           /\ report.cost.num_signatures # 0
           /\ report.cost.base_fee = FromNat(counted * 5000)
           /\ report.fee_recommendation.base_fee = report.cost.base_fee

\* C8's case: a report on a transaction without signatures charges one
\* signature, 5000 lamports.
C8_Witness ==
    /\ pc = "done"
    /\ Len(transaction.signatures) = 0
    /\ report.cost.num_signatures = 1
    /\ report.cost.base_fee = FromNat(5000)

\* C9: in every report total_fee is base_fee + priority_fee, cost_in_lamports
\* is total_fee, and cost_in_sol, printed with nine decimals, is
\* total_fee / 1,000,000,000 (its nine decimals are the lamports).
C9_TotalFeeIsSumOfParts ==
    pc = "done"
    => /\ report.cost.total_fee
            = Add(report.cost.base_fee, report.cost.priority_fee)
       /\ report.cost.cost_in_lamports = report.cost.total_fee
       /\ report.cost.cost_in_sol.finite
       /\ report.cost.cost_in_sol.scaled = report.cost.total_fee

\* C9's case: the default limit 200000 at 10000 microlamports with one
\* signature: 5000 + 2000 = 7000 lamports, 0.000007000 SOL.
C9_Witness ==
    /\ pc = "done"
    /\ cu_limit = FromNat(200000)
    /\ cu_price = FromNat(10000)
    /\ Len(transaction.signatures) = 1
    /\ report.cost.base_fee = FromNat(5000)
    /\ report.cost.priority_fee = FromNat(2000)
    /\ report.cost.total_fee = FromNat(7000)
    /\ report.cost.cost_in_sol.scaled = FromNat(7000)

\* The units the simulator reported, 0 when it reported none.
ReportedUnits ==
    IF sim_result.units_consumed = <<>> THEN <<>>
    ELSE FromNat(sim_result.units_consumed[1])

\* |a - b|
Distance(a, b) == IF Leq(a, b) THEN Sub(b, a) ELSE Sub(a, b)

\* C10: the percentage of the compute budget used is a number, never an
\* infinity, a NaN or negative; it is 0 when the decoded cu_limit is 0,
\* whatever was consumed; otherwise it is units_consumed / cu_limit * 100 to
\* the two decimals printed (within half a hundredth).
C10_PercentageOfBudgetUsed ==
    pc = "done"
    => LET pct == report.compute_units.percentage_of_compute_budget_used
       IN  /\ pct.finite
           /\ cu_limit = <<>> => pct.scaled = <<>>
           /\ cu_limit # <<>>
              => Leq(MulSmall(Distance(Mul(pct.scaled, cu_limit),
                                       MulSmall(ReportedUnits, 10000)), 2),
                     cu_limit)

\* C10's case: a limit directive of 0 and 1,500,000 units consumed: 0.00.
C10_Witness ==
    /\ pc = "done"
    /\ cu_limit = <<>>
    /\ ReportedUnits = FromNat(1500000)
    /\ report.compute_units.percentage_of_compute_budget_used
         = [finite |-> TRUE, scaled |-> <<>>]

\* ------------------------------------------ the claims on the compliance
\* The usage is above `percent` per cent of the decoded budget:
\* units_consumed * 100 > percent * cu_limit (a budget of 0 is a usage of 0).
UsageAbove(percent) ==
    /\ cu_limit # <<>>
    /\ Less(MulSmall(cu_limit, percent), MulSmall(ReportedUnits, 100))

\* The text of the tier the usage falls into.
TierText ==
    IF UsageAbove(90)
    THEN "Consider optimizing compute usage - near budget limit"
    ELSE IF UsageAbove(70)
    THEN "Monitor compute usage - approaching budget limit"
    ELSE "Compute usage is within acceptable range"

\* C11 as stated: in every report the compute suggestion is the text of the
\* usage tier (above 90%, above 70%, otherwise), one of the three texts,
\* whatever else the input holds.
C11_Original ==
    pc = "done" => report.compute_units.suggestion = Text(TierText, <<>>)

\* C11, amended: the suggestion is the text of the usage tier when the
\* decoded cu_limit is at most 1,400,000; above it the suggestion is the
\* warning "CU limit (cu_limit) exceeds maximum allowed (1400000)", whatever
\* the usage.
C11_SuggestionByTiersUpToMaximum ==
    pc = "done"
    => report.compute_units.suggestion
         = IF Less(FromNat(1400000), cu_limit)
           THEN Text("CU limit ({}) exceeds maximum allowed ({})",
                     <<cu_limit, FromNat(1400000)>>)
           ELSE Text(TierText, <<>>)

\* C11's case: the default limit 200000 with 150000 units consumed: 75.00%,
\* "approaching budget limit".
C11_Witness ==
    /\ pc = "done"
    /\ cu_limit = FromNat(200000)
    /\ ReportedUnits = FromNat(150000)
    /\ report.compute_units.percentage_of_compute_budget_used
         = [finite |-> TRUE, scaled |-> FromNat(7500)]
    /\ report.compute_units.suggestion
         = Text("Monitor compute usage - approaching budget limit", <<>>)

\* C12: compute_units.warning is present if and only if the decoded cu_limit
\* is greater than 1,400,000, whatever was consumed: 1,400,000 itself gives
\* none, 1,500,000 gives one; when present it names the limit and the maximum.
C12_WarningIffAboveMaximum ==
    pc = "done"
    => /\ IsSome(report.compute_units.warning)
          <=> Less(FromNat(1400000), cu_limit)
       /\ cu_limit = FromNat(1400000) => report.compute_units.warning = None
       /\ cu_limit = FromNat(1500000)
          => report.compute_units.warning
               = Some(Text("CU limit ({}) exceeds maximum allowed ({})",
                           <<FromNat(1500000), FromNat(1400000)>>))

\* C12's case: a limit directive of exactly 1,400,000 with 1,500,000 units
\* consumed (more than the budget): no warning.
C12_Witness ==
    /\ pc = "done"
    /\ cu_limit = FromNat(1400000)
    /\ ReportedUnits = FromNat(1500000)
    /\ report.compute_units.compute_budget = FromNat(1400000)
    /\ report.compute_units.warning = None

\* C14: transaction_status.status is "Success" exactly when the simulator
\* reported no error and "Failed" exactly when it reported one; error is
\* null exactly when the status is "Success", and otherwise it is the debug
\* text of the error reported.
C14_StatusFollowsSimulationError ==
    pc = "done"
    => LET outcome == report.transaction_status
       IN  /\ outcome.status = "Success" <=> sim_result.err = None
           /\ outcome.status = "Failed" <=> sim_result.err # None
           /\ outcome.error = None <=> outcome.status = "Success"
           /\ sim_result.err = Some(InstructionErrorCustom(1, 1))
              => outcome.error
                   = Some(Text("InstructionError({}, Custom({}))", <<1, 1>>))

\* C14's case: the simulator consumed 150000 units and reported
\* InstructionError(1, Custom(1)): "Failed" with that text.
C14_Witness ==
    /\ pc = "done"
    /\ sim_result.units_consumed = Some(150000)
    /\ sim_result.err = Some(InstructionErrorCustom(1, 1))
    /\ report.transaction_status.status = "Failed"
    /\ report.transaction_status.error
         = Some(Text("InstructionError({}, Custom({}))", <<1, 1>>))

\* C16: total_proof_witness_size is proof_size + witness_size, in "proof"
\* and in "transaction_size"; cu_per_proof_size is a number (no infinity,
\* no NaN), exactly 0 when both sizes are 0, and units_consumed / total to
\* the four decimals printed (within half a ten-thousandth) otherwise.
C16_CuPerProofSize ==
    pc = "done"
    => LET total == proof_size + witness_size
           ratio == report.proof.cu_per_proof_size
       IN  /\ report.proof.total_proof_witness_size = total
           /\ report.transaction_size.total_proof_witness_size = total
           /\ ratio.finite
           /\ total = 0 => ratio.scaled = <<>>
           /\ total > 0
              => Leq(MulSmall(Distance(MulSmall(ratio.scaled, total),
                                       MulSmall(ReportedUnits, 10000)), 2),
                     FromNat(total))

\* C16's case: an empty proof and an empty witness with 150000 units
\* consumed: total 0 and cu_per_proof_size 0.0000.
C16_Witness ==
    /\ pc = "done"
    /\ proof_size = 0 /\ witness_size = 0
    /\ ReportedUnits = FromNat(150000)
    /\ report.proof.total_proof_witness_size = 0
    /\ report.proof.cu_per_proof_size = [finite |-> TRUE, scaled |-> <<>>]

\* ------------------------------------- the claims on the effective limit
\* The limit and the price in effect: those of the last well-formed
\* directive of their kind, 200000 and 0 when there is none.
EffectiveLimit ==
    IF \E k \in 1..Len(Instructions) : WellFormedLimit(k)
    THEN LimitOf(LastLimit) ELSE FromNat(200000)
EffectivePrice ==
    IF \E k \in 1..Len(Instructions) : WellFormedPrice(k)
    THEN PriceOf(LastPrice) ELSE <<>>

\* The priority fee of the limit and price in effect, as u64 arithmetic
\* yields it: the low 64 bits of the product, divided by 1,000,000.
EffectiveFee ==
    Div(Wrap(Mul(EffectiveLimit, EffectivePrice), 8).value, FromNat(1000000))

\* 2^52: an f64 quotient is within 2^-53 of the exact one, relatively.
TwoTo52 == <<0, 0, 0, 0, 0, 0, 16>>

\* C19: in every report compute_units.compute_budget, cost.cu_limit and
\* fee_recommendation.cu_limit are the limit in effect; the usage percentage
\* is units_consumed / limit * 100 (two decimals), the priority fee is the
\* limit times the price over 1,000,000, the priority is that fee over the
\* limit (nine decimals of the f64 quotient), 0 for a limit of 0; and every
\* field of fee_recommendation has the same value in cost.
C19_OneEffectiveLimit ==
    pc = "done"
    => LET limit    == EffectiveLimit
           pct      == report.compute_units.percentage_of_compute_budget_used
           priority == report.cost.priority
       IN  /\ report.compute_units.compute_budget = limit
           /\ report.cost.cu_limit = limit
           /\ report.fee_recommendation.cu_limit = limit
           /\ pct.finite /\ priority.finite
           /\ limit = <<>> => pct.scaled = <<>> /\ priority.scaled = <<>>
           /\ limit # <<>>
              => /\ Leq(MulSmall(Distance(Mul(pct.scaled, limit),
                                          MulSmall(ReportedUnits, 10000)), 2),
                        limit)
                 /\ Leq(MulSmall(Distance(Mul(priority.scaled, limit),
                                          MulInt(EffectiveFee, 1000000000)), 2),
                        Add(limit, Div(MulInt(EffectiveFee, 1000000000),
                                       TwoTo52)))
           /\ report.cost.prioritization_fee = EffectiveFee
           /\ report.cost.priority_fee = EffectiveFee
           /\ \A field \in DOMAIN report.fee_recommendation :
                 report.cost[field] = report.fee_recommendation[field]

\* C19's case: a limit directive of 1,500,000 and a price directive of
\* 10,000 with 150000 units consumed: budget 1,500,000 in all three places,
\* 10.00%, a priority fee of 15000 lamports and a priority of 0.010000000.
C19_Witness ==
    /\ pc = "done"
    /\ EffectiveLimit = FromNat(1500000)
    /\ EffectivePrice = FromNat(10000)
    /\ ReportedUnits = FromNat(150000)
    /\ report.compute_units.compute_budget = FromNat(1500000)
    /\ report.cost.cu_limit = FromNat(1500000)
    /\ report.fee_recommendation.cu_limit = FromNat(1500000)
    /\ report.compute_units.percentage_of_compute_budget_used.scaled
         = FromNat(1000)
    /\ report.cost.priority_fee = FromNat(15000)
    /\ report.fee_recommendation.priority.scaled = FromNat(10000000)

\* C13: in every report run_simulate assembles, message_within_size is true
\* exactly when the serialized message is at most 1232 bytes long (true at
\* 1232, false at 1233 and at 1300), the message says "Success" with the two
\* sizes when the flag is true and "Fail" with them when it is false, and the
\* size suggestion is the "within limits" text when the flag is true and the
\* "exceeds maximum" text when it is false.
C13_WithinSizeIffAtMost1232 ==
    report # NoReport =>
        LET g == report.transaction_size
        IN  /\ g.message_size = MessageSize(transaction)
            /\ g.message_within_size = (g.message_size <= 1232)
            /\ g.message_size \in {1232} => g.message_within_size
            /\ g.message_size \in {1233, 1300} => ~g.message_within_size
            /\ g.message =
                   IF g.message_within_size
                   THEN Text("Success: Message size ({}) is within limits ({})",
                             <<g.message_size, 1232>>)
                   ELSE Text("Fail: Message size ({}) exceeds maximum ({})",
                             <<g.message_size, 1232>>)
            /\ g.suggestion =
                   IF g.message_within_size
                   THEN Text("Transaction size ({}) is within limits",
                             <<g.message_size>>)
                   ELSE Text("Transaction size ({}) exceeds maximum ({})",
                             <<g.message_size, 1232>>)

\* A report for a message of exactly 1232 bytes, within the limit.
C13_Witness ==
    /\ report # NoReport
    /\ report.transaction_size.message_size = 1232
    /\ report.transaction_size.message_within_size

\* The groups of a report that are not computed from the simulation's error.
WithoutStatus(r) ==
    [g \in DOMAIN r \ {"transaction_status", "deserialization"} |-> r[g]]

\* The report create_simulation_json would build from the present values had
\* the simulation reported no error.
ReportOfSuccess ==
    create_simulation_json(
        [sim_result EXCEPT !.err = None], transaction, proof_size,
        witness_size, recent_prioritization_fees,
        PubkeyFromStr(program_id_str)[1], network, rpc_url,
        parse_compute_budget_instructions(transaction))

\* C15: when simulate_transaction answers, with or without an error in the
\* answer, run_simulate goes on; with an error in the answer no later step
\* returns early, the report is assembled with status "Failed" and the
\* error's text, every group of it other than the two computed from the
\* error (transaction_status, deserialization) equals that of the report for
\* the same values without the error, and the save step returns Ok with the
\* file holding that report unless the write itself fails.
C15_FailedSimulationIsData ==
    [][/\ (pc = "simulate" /\ sim_result' # NoSimulationResult)
              => (pc' = "fees" /\ result' = "running")
       /\ (pc \in {"fees", "print", "assemble"} /\ IsSome(sim_result.err))
              => (pc' \in {"print", "assemble", "save"} /\ result' = "running")
       /\ (pc = "assemble" /\ IsSome(sim_result.err))
              => /\ report'.transaction_status =
                        [status     |-> "Failed",
                         error      |-> Some(DebugFormat(sim_result.err[1])),
                         suggestion |-> "Review transaction error and fix issues"]
                 /\ report'.deserialization.success = FALSE
                 /\ WithoutStatus(report') = WithoutStatus(ReportOfSuccess)
       /\ (pc = "save" /\ IsSome(sim_result.err))
              => /\ result' \in {"Ok", "Err"}
                 /\ result' = "Ok" => report_file' = ToStringPretty(report)
                 /\ result' = "Err" => report_file' \in {report_file, TruncatedFile}
      ]_vars

\* An invocation whose simulation failed has returned Ok and the file holds
\* its report.
C15_Witness ==
    /\ pc = "idle"
    /\ result = "Ok"
    /\ IsSome(sim_result.err)
    /\ report # NoReport
    /\ report.transaction_status.status = "Failed"
    /\ report_file = ToStringPretty(report)

\* C20 as stated: the file changes only in the save step, and every save
\* step leaves the report of its invocation in the file.
C20_Original ==
    [][/\ pc # "save" => report_file' = report_file
       /\ pc = "save" => report_file' = ToStringPretty(report)]_vars

\* C20: the file changes only in the save step; a save step that returns Ok
\* leaves exactly the report of its invocation in the file, whatever the
\* file held; a save step that returns Err leaves the file as it was or
\* truncated; so an invocation that ends before the save step leaves the
\* file unchanged, and after an invocation that returned Ok the file holds
\* that invocation's report.
C20_FileHoldsLastSavedReport ==
    /\ [](pc = "idle" /\ result = "Ok" => report_file = ToStringPretty(report))
    /\ [][/\ pc # "save" => report_file' = report_file
          /\ pc = "save"
                 => /\ (result' = "Ok"
                           => report_file' = ToStringPretty(report))
                    /\ (result' = "Err"
                           => report_file' \in {report_file, TruncatedFile})
          ]_vars

\* A second invocation ended before its save step and the report written by
\* the first is still in the file.
C20_Witness ==
    /\ pc = "idle"
    /\ invocations = 2
    /\ result = "Err"
    /\ report = NoReport
    /\ report_file \notin {NoFile, TruncatedFile}

RECURSIVE GroupedValueFrom(_, _, _)
\* The number a string of decimal digits and commas stands for.
GroupedValueFrom(chars, k, value) ==
    IF k > Len(chars) THEN value
    ELSE IF chars[k] = "," THEN GroupedValueFrom(chars, k + 1, value)
    ELSE GroupedValueFrom(
             chars, k + 1,
             Add(MulSmall(value, 10),
                 FromNat(CHOOSE d \in 0..9 : DigitChars[d + 1] = chars[k])))

GroupedValue(chars) == GroupedValueFrom(chars, 1, <<>>)

\* The report's usage is not above 90% of its budget: total_cu * 100 is at
\* most 90 * compute_budget (a budget of 0 is a usage of 0).
ReportUsageWithin90 ==
    \/ report.compute_units.compute_budget = <<>>
    \/ Leq(MulSmall(report.compute_units.total_cu, 100),
           MulSmall(report.compute_units.compute_budget, 90))

\* C18: once print_simulation_results and create_simulation_json have both
\* run on the same values, every value on the console equals the report's:
\* units consumed and budget (read back from their grouped digits), usage
\* percent, message size, signature count, base fee and priority fee (the
\* SOL amounts, to nine decimals, are the report's lamports), total cost,
\* proof, witness and total sizes, and the error text; and the three marks
\* agree with the report: size within limit with message_within_size,
\* usage with "not above 90%" (and, when there is no limit warning, with
\* the suggestion not being the near-limit text), success with status
\* "Success".
C18_ConsoleShowsReportValues ==
    (console # NoConsole /\ report # NoReport) =>
        /\ GroupedValue(console.compute_units.consumed)
              = report.compute_units.total_compute_units_consumed
        /\ GroupedValue(console.compute_units.budget)
              = report.compute_units.compute_budget
        /\ console.compute_units.usage
              = report.compute_units.percentage_of_compute_budget_used
        /\ console.compute_units.usage_ok = ReportUsageWithin90
        /\ report.compute_units.warning = None
              => (console.compute_units.usage_ok
                    = (report.compute_units.suggestion
                         # Text("Consider optimizing compute usage - near budget limit", <<>>)))
        /\ IsSome(console.compute_units.warning)
              = IsSome(report.compute_units.warning)
        /\ console.transaction_size.message_size
              = report.transaction_size.message_size
        /\ console.transaction_size.max_size
              = report.transaction_size.max_message_size
        /\ console.transaction_size.message_within_size
              = report.transaction_size.message_within_size
        /\ console.cost.signatures = report.cost.num_signatures
        /\ console.cost.lamports_per_signature
              = report.cost.base_fee_per_signature
        /\ console.cost.base_fee
              = [finite |-> TRUE, scaled |-> report.cost.base_fee]
        /\ console.cost.priority_fee
              = [finite |-> TRUE, scaled |-> report.cost.priority_fee]
        /\ console.cost.total = report.cost.cost_in_sol
        /\ console.proof_files.proof_size = report.proof.proof_size
        /\ console.proof_files.witness_size = report.proof.witness_size
        /\ console.proof_files.total = report.proof.total_proof_witness_size
        /\ console.transaction_status.is_success
              = (report.transaction_status.status = "Success")
        /\ console.transaction_status.error = report.transaction_status.error

\* Both have run on a transaction that sets the limit to 1,500,000 and a
\* price of 10,000, for a failed simulation that consumed 1,500,000 units:
\* the console shows "1,500,000" twice, a usage above 90% and a failure.
C18_Witness ==
    /\ pc = "save"
    /\ console # NoConsole
    /\ report # NoReport
    /\ console.compute_units.budget
         = <<"1", ",", "5", "0", "0", ",", "0", "0", "0">>
    /\ console.compute_units.consumed = console.compute_units.budget
    /\ ~console.compute_units.usage_ok
    /\ ~console.transaction_status.is_success
    /\ report.cost.priority_fee = FromNat(15000)
    /\ console.cost.priority_fee.scaled = FromNat(15000)

\* A report without its list of recent prioritization fees.
WithoutRecentFees(r) ==
    [g \in DOMAIN r \ {"recent_prioritization_fees"} |-> r[g]]

\* The report create_simulation_json would build from the present values had
\* the lookup answered with an empty list.
ReportOfEmptyFees ==
    create_simulation_json(
        sim_result, transaction, proof_size, witness_size, Some(<<>>),
        PubkeyFromStr(program_id_str)[1], network, rpc_url,
        parse_compute_budget_instructions(transaction))

\* The list kept from a lookup's answer: as many entries as the answer has
\* but at most 50, the k-th being the k-th from the answer's end.
KeptFrom(kept, fetched) ==
    /\ Len(kept) = IF Len(fetched) <= 50 THEN Len(fetched) ELSE 50
    /\ \A k \in 1..Len(kept) :
          /\ kept[k].slot = fetched[Len(fetched) + 1 - k].slot
          /\ kept[k].prioritization_fee
                = fetched[Len(fetched) + 1 - k].prioritization_fee

\* C25: the lookup of recent prioritization fees never ends the invocation:
\* its step always leads on to printing, with no list after a failure and,
\* after an answer, with at most 50 entries taken from the end of the answer
\* in reverse order; the report then assembled holds exactly that list (null
\* when there is none) and is otherwise the report the same values give with
\* any other list, and the save step writes it as any other report.
C25_FeeLookupFailureIsNull ==
    [][/\ pc = "fees"
             => /\ pc' = "print"
                /\ result' = "running"
                /\ \/ recent_prioritization_fees' = None
                   \/ \E fetched \in PrioritizationFeeOutcomes \ {None} :
                         /\ IsSome(recent_prioritization_fees')
                         /\ KeptFrom(recent_prioritization_fees'[1], fetched[1])
       /\ (pc = "assemble" /\ pc' = "save")
             => /\ report'.recent_prioritization_fees
                     = recent_prioritization_fees
                /\ IsSome(recent_prioritization_fees)
                     => Len(recent_prioritization_fees[1]) <= 50
                /\ WithoutRecentFees(report')
                     = WithoutRecentFees(ReportOfEmptyFees)
       /\ (pc = "save" /\ recent_prioritization_fees = None /\ result' = "Ok")
             => report_file' = ToStringPretty(report)
      ]_vars

\* An invocation whose lookup failed has returned Ok; the file holds its
\* report, with null for the list.
C25_Witness ==
    /\ pc = "idle"
    /\ result = "Ok"
    /\ report # NoReport
    /\ report.recent_prioritization_fees = None
    /\ report_file = ToStringPretty(report)

\* The report shows the limit run_simulate asked for and no priority fee.
ReportOfBuiltLimit ==
    /\ report.compute_units.compute_budget = FromNat(1400000)
    /\ report.compute_units.warning = None
    /\ report.cost.prioritization_fee = <<>>
    /\ report.fee_recommendation.prioritization_fee = <<>>

\* The verify instruction's data, when it has the form of a directive.
VerifyData == create_instruction_data(proof_files)

\* C29 as stated: every report of a transaction run_simulate built has a
\* compute budget of 1,400,000, no limit warning and a prioritization fee
\* of 0.
C29_Original == report # NoReport => ReportOfBuiltLimit

\* C29: the transaction run_simulate builds holds the limit instruction
\* (2,0,0,0 and 1,400,000 in little-endian) and then the verify instruction
\* with the proof followed by the witness; when the program id is not the
\* compute-budget program's, the decoder returns 1,400,000 and 0 for every
\* proof and witness, also those beginning with 2 or 3, and the report has
\* a budget of 1,400,000, no warning and a prioritization fee of 0; when the
\* program id is the compute-budget program's own, the verify instruction is
\* decoded as a directive too: data of 8 bytes or more beginning with 2
\* replaces the limit by its bytes 4 to 7, data of 12 bytes or more
\* beginning with 3 sets the price to its bytes 4 to 11.
C29_BuiltLimitRoundTrips ==
    transaction # NoTransaction =>
        /\ Len(transaction.message.instructions) = 2
        /\ transaction.message.instructions[1].data
              = <<2, 0, 0, 0, 192, 92, 21, 0>>
        /\ transaction.message.instructions[2].data = VerifyData
        /\ program_id_str # COMPUTE_BUDGET_PROGRAM_ID
              => /\ parse_compute_budget_instructions(transaction).cu_limit
                      = FromNat(1400000)
                 /\ parse_compute_budget_instructions(transaction).cu_price
                      = <<>>
                 /\ report # NoReport => ReportOfBuiltLimit
        /\ program_id_str = COMPUTE_BUDGET_PROGRAM_ID
              => /\ parse_compute_budget_instructions(transaction).cu_limit
                      = IF Len(VerifyData) >= 8 /\ VerifyData[1] = 2
                        THEN FromLeBytes(SubSeq(VerifyData, 5, 8))
                        ELSE FromNat(1400000)
                 /\ parse_compute_budget_instructions(transaction).cu_price
                      = IF Len(VerifyData) >= 12 /\ VerifyData[1] = 3
                        THEN FromLeBytes(SubSeq(VerifyData, 5, 12))
                        ELSE <<>>

\* A report for the verifier program and a proof that begins like a limit
\* directive of 1,500,000: the budget is 1,400,000.
C29_Witness ==
    /\ report # NoReport
    /\ program_id_str = "VerifierProgram"
    /\ proof_files.proof = <<2, 0, 0, 0, 96, 227, 22, 0>>
    /\ report.compute_units.compute_budget = FromNat(1400000)
    /\ report.compute_units.warning = None


C22_InitializedIffDirectory ==
    is_initialized(project) <=> project.zklense = "dir"

\* C23: after run_config_set_network returned Ok for network n, from any
\* prior configuration, the stored network is n and the stored RPC URL is
\* n's default URL.
C23_SetNetworkSetsRpcUrl ==
    command.name = "run_config_set_network" /\ command.result = "Ok"
        => /\ ReadConfig(project) # None
           /\ Get(ReadConfig(project)[1], "solana_network")
                  = Some(<<NetworkToString(
                               NetworkFromStr(command.arg)[1])>>)
           /\ Get(ReadConfig(project)[1], "solana_rpc_url")
                  = Some(NetworkRpcUrl(NetworkFromStr(command.arg)[1]))


\* The settings other than the RPC URL are the same in two configurations.
SameButRpcUrl(before, after) ==
    /\ GetSolanaNetwork(after) = GetSolanaNetwork(before)
    /\ \A key \in (DOMAIN before \cup DOMAIN after) \ {"solana_rpc_url"} :
           Get(after, key) = Get(before, key)

\* The effect C24 states, for the configurations before and after a step.
RpcUrlEffect(before, after, done) ==
    /\ done.name = "run_config_reset_rpc"
           => /\ Get(after, "solana_rpc_url")
                     = Some(NetworkRpcUrl(GetSolanaNetwork(before)))
              /\ done.returned
                     = Some(NetworkRpcUrl(GetSolanaNetwork(before)))
              /\ SameButRpcUrl(before, after)
    /\ done.name = "run_config_set_rpc"
           => /\ Get(after, "solana_rpc_url") = Some(done.arg)
              /\ SameButRpcUrl(before, after)

\* C24 as stated, for every call that found a configuration: the reset
\* stores and returns the default URL of the configured network and leaves
\* the network and every other setting unchanged, and setting a custom URL
\* never changes the configured network.
C24_Original ==
    [][(/\ command'.name \in {"run_config_reset_rpc", "run_config_set_rpc"}
        /\ ReadConfig(project) # None)
           => /\ ReadConfig(project') # None
              /\ SameButRpcUrl(ReadConfig(project)[1],
                               ReadConfig(project')[1])]_vars

\* C24: a reset that returns Ok stores and returns the default URL of the
\* configured network and leaves the network and every other setting as
\* they were; a set-rpc that returns Ok stores the URL and leaves the
\* network and every other setting as they were; a call that returns Err
\* leaves the file as it was or empty.
C24_RpcUrlChangesOnlyRpcUrl ==
    [][command'.name \in {"run_config_reset_rpc", "run_config_set_rpc"}
           => /\ (command'.result = "Ok"
                     => /\ ReadConfig(project) # None
                        /\ ReadConfig(project') # None
                        /\ RpcUrlEffect(ReadConfig(project)[1],
                                        ReadConfig(project')[1], command'))
              /\ (command'.result = "Err"
                     => \/ project' = project
                        \/ /\ project # project'
                           /\ project'
                                 = [project EXCEPT !.config = [toml |-> <<>>]])
      ]_vars

\* A reset returned the mainnet default for a configuration that held a
\* custom URL, the network and the other settings still stored.
C24_Witness ==
    /\ command.name = "run_config_reset_rpc"
    /\ command.result = "Ok"
    /\ command.returned = Some(NetworkRpcUrl("Mainnet"))
    /\ ReadConfig(project)
          = Some([ZkLenseConfigNew("1699999999") EXCEPT
                      !.solana_network = <<"mainnet">>,
                      !.solana_rpc_url = NetworkRpcUrl("Mainnet")])


\* C26: ensure_initialized returns Ok(true) only if the .zklense directory
\* exists when it returns; Ok(false) only when the user declined, nothing
\* having been created; an error when the path does not exist or when
\* initialization was attempted and the directory still does not exist.
C26_EnsureInitialized ==
    [][command'.name = "ensure_initialized"
           => /\ (command'.result = "Ok(true)" => project'.zklense = "dir")
              /\ (command'.result = "Ok(false)"
                     => command'.arg = "declined" /\ project' = project)
              /\ (~project.base => command'.result = "Err")
              /\ ((/\ project.base
                    /\ project.zklense = "absent"
                    /\ command'.arg = "accepted"
                    /\ project'.zklense # "dir")
                     => command'.result = "Err")]_vars


\* C27: run_init never overwrites an existing configuration. When .zklense
\* and config.toml both exist it changes nothing; when .zklense exists but
\* config.toml is missing it recreates a default config (if the save goes
\* through); when it creates the directory but saving the config fails it
\* removes the directory again, so that the project is not left reported
\* as initialized.
C27_InitKeepsAndCleansUp ==
    [][command'.name = "run_init" /\ project.base
           => /\ (config_exists(project) => project' = project)
              /\ ((project.zklense = "dir" /\ ~config_exists(project))
                     => \/ command'.saved = None
                        \/ /\ command'.saved # None
                           /\ ReadConfig(project') = command'.saved
                           /\ command'.saved[1]
                                 \in {ZkLenseConfigNew(timestamp) :
                                          timestamp \in Timestamps})
              /\ ((project.zklense = "absent" /\ command'.saved = None)
                     => ~is_initialized(project'))]_vars


\* C28: a report persisted by a successful simulate run is the report a
\* subsequent view on the same directory finds and serves: the path
\* run_view reads is the path run_simulate wrote, and every GET response
\* body equals that file's content as read at startup.
C28_ViewServesSimulateReport ==
    (command.name = "run_view" /\ result = "Ok")
        => /\ ViewReportPath = SimulateReportPath
           /\ command.result
                 \notin {"No report found", "Report file is not valid JSON"}
           /\ command.result = "serving"
                 => /\ command.content = report_file
                    /\ \/ command.response = None
                       \/ command.response[1].request # "GET"
                       \/ command.response[1].answer
                             = Some(OkResponse(report_file))


\* The names of the first n steps of the pipeline.
StepNames(n) == [k \in 1..n |-> get_pipeline_steps[k].name]

\* C30: the pipeline runs its six steps strictly in the order Execute,
\* Compile, Setup, Prove, Verify, Deploy. The steps started are a prefix of
\* that order and every step before the last one started has exited
\* successfully; once run_pipeline has ended with an error (a failing step,
\* a missing target directory before a sunspot step, a failed prerequisite
\* check) no step is started any more; the deployment prompt is reached
\* only after all six steps succeeded.
C30_PipelineOrder ==
    /\ [](/\ Len(pipeline.started) <= 6
          /\ pipeline.started
                = SubSeq(<<"Execute", "Compile", "Setup", "Prove", "Verify",
                           "Deploy">>, 1, Len(pipeline.started))
          /\ Len(pipeline.exits) = Len(pipeline.started)
          /\ \A k \in 1..(Len(pipeline.started) - 1) :
                 pipeline.exits[k] = "success"
          /\ ((/\ pipeline.started # <<>>
                /\ pipeline.exits[Len(pipeline.started)] # "success")
                 => pipeline.status = "Err")
          /\ (pipeline.prompted
                 => pipeline.exits = [k \in 1..6 |-> "success"]))
    /\ [][/\ (pipeline.status \in {"Err", "Ok"} => pipeline' = pipeline)
          /\ (pipeline.status = "none" /\ pipeline'.status = "Err"
                 => pipeline'.started = <<>>)
          /\ (/\ pipeline.status = "running"
               /\ Len(pipeline.started) >= 1
               /\ Len(pipeline.started) < 6
               /\ ~pipeline.target
                 => /\ pipeline'.status = "Err"
                    /\ pipeline'.started = pipeline.started)]_vars

\* All six steps ran in order and the deployment prompt was reached.
C30_Witness ==
    /\ pipeline.prompted
    /\ pipeline.started = StepNames(6)
    /\ pipeline.status = "Ok"

\* A step failed after earlier ones succeeded, and nothing ran after it.
C30_WitnessFailure ==
    /\ pipeline.status = "Err"
    /\ pipeline.started = StepNames(3)
    /\ pipeline.exits = <<"success", "success", "exit failure">>

====
